---------------------------- MODULE Spec2Model ----------------------------
(***************************************************************************)
(* A model of the Silicium kernel (haoud/silicium-rs): the physical frame  *)
(* allocator, the page-table walker with its TLB shootdown, the address    *)
(* spaces, the page-fault handler, vmalloc, the PID/TID bitmap allocators, *)
(* the processes, the round-robin scheduler and the SMP start-up.          *)
(*                                                                         *)
(* Each subsystem has its own specification (SpecFrame, SpecHighMemory,    *)
(* SpecPaging, SpecShootdown, SpecShootSteps, SpecRoots, SpecVmm,          *)
(* SpecFault, SpecAtomic, SpecDemand, SpecTid, SpecSched, SpecRoundRobin,  *)
(* SpecSmp, SpecProcess, SpecBoot, SpecSpin, SpecLocks, SpecRace).  All of *)
(* them share one Init; a subsystem's actions leave the others'            *)
(* variables unchanged.                                                    *)
(* A kernel panic halts the machine: a panicked subsystem takes no step.   *)
(***************************************************************************)
EXTENDS Integers, Sequences, FiniteSets, TLC

VARIABLES
    \* ---- mm::frame (FRAME_STATE, FRAME_ALLOCATOR) ----
    mmap,        \* the bootloader's memory map handed to State::setup
    frames,      \* State::frames: frame index -> FrameInfo (flags, count)
    statistic,   \* dummy_allocator::Allocator::statistic
    fphase,      \* "boot" (before mm::setup), "ready", "panic"
    fret,        \* the last allocator call: operation, argument, result,
                 \* and the FrameInfo it found before touching it
    scen,        \* progress of allocate; reference; deallocate; deallocate
                 \* on one frame (history, for the reference-count scenario)
    \* ---- sys::thread (TIDS, TIDS_OFFSET, TIDS_USED) ----
    TIDS,        \* the bitmap: word index -> set of the bits that are set
    TIDS_OFFSET, \* where the next search starts
    TIDS_USED,   \* the usage counter
    tpc,         \* per CPU: where it stands in Builder::build / Tid::generate
    tloc,        \* per CPU: the value its TIDS_OFFSET.fetch_add returned,
                 \* then the Tid of the thread it is building
    holders,     \* Tid -> number of live threads that carry it (history)
    \* ---- arch::paging ----
    tables,      \* physical memory read as page tables: frame -> PageTable
    tlb,         \* per core: virtual address -> the leaf entry its TLB
                 \* caches (the zeroed entry when it caches none)
    ipi,         \* per core: a TLB-shootdown interrupt is pending
    lapic_initialized,  \* lapic::initialized()
    pret,        \* the last paging call: operation, core, address, result
    pscen,       \* progress of map; translate; unmap; translate on one
                 \* address, with the results so far (history)
    \* ---- sys::schedule, sys::thread ----
    run_list,    \* Scheduler::run_list: sequence of [tid, quantum]
    threads,     \* thread -> its state and its NEED_SCHEDULING flag
    current,     \* per core: CURRENT_THREAD, -1 before its first use
    sphase,      \* "run", or "panic" once an unwrap of the scheduler failed
    sret,        \* the last call of schedule: what it found and chose
    rr,          \* the clock ticks and selections of the round-robin run
    \* ---- arch::paging, TableRoot ----
    roots,       \* the TableRoots made by new and clone: the frame of the
                 \* PML4 and the frame of the root it was cloned from
    preallocated,  \* paging::setup has run
    rret,        \* the last call on a TableRoot (history)
    \* ---- arch::paging, unmap and change_protection step by step ----
    shoot,       \* per core: where it stands in unmap / change_protection,
                 \* whether its interrupts are enabled, and what the call
                 \* has done so far (history)
    \* ---- mm::vmm and the page-fault handler ----
    FREE_VMA,    \* size -> the free areas of that size, in push order
    USED_VMA,    \* start -> the used area recorded under that start
    vphase,      \* "boot" (before vmm::setup), "ready", "panic"
    granted,     \* the ranges allocate returned that were not deallocated
                 \* since, each with the statistics of the frame
                 \* allocator at the time, in the order of their allocation
                 \* (history)
    vret,        \* the last call of vmm or of the page-fault handler
    \* ---- sys::process (PROCESSES, PIDS, PIDS_OFFSET, PIDS_USED) ----
    PROCESSES,   \* the keys of the map: the Pids of the registered processes
    process,     \* Pid -> the Process that carries it: whether it exists
                 \* (an Arc refers to it), its parent and its children
    PIDS,        \* the bitmap: word index -> set of the bits that are set
    PIDS_OFFSET, \* where the next search starts
    PIDS_USED,   \* the usage counter
    plock,       \* the RwLock of PROCESSES: the core that holds it for
                 \* writing, -1 when nobody does
    del,         \* per core: where it stands in delete, the Pid it removed
                 \* and the failed attempts of its read lock
    prel,        \* Pid -> number of Pid::release calls on it (history)
    pphase,      \* "run", or "panic" once an unwrap failed
    \* ---- main.rs (EARLY, start), arch::smp (CPU_COUNT, LIMINE_SMP) ----
    LIMINE_SMP,  \* the SMP response: one [processor_id, lapic_id] per CPU,
                 \* the bootstrap processor first
    CPU_COUNT,   \* the number of CPUs that are online
    EARLY,       \* the early flag
    bsp,         \* where the bootstrap processor stands in start
    ap,          \* per entry of the response: where the processor stands in
                 \* ap_start, and how often it incremented CPU_COUNT
    bret,        \* the stores to EARLY so far and the table the last page
                 \* fault walked (history)
    \* ---- silicium-sync, RawSpinlockIrq ----
    slock,       \* one lock: its two AtomicBools, locked (.0) and saved (.1)
    sirq,        \* per core: the interrupt-enable flag
    scpu,        \* per core: where it stands in try_lock / unlock, the flag
                 \* it had when its try_lock began, and the call it last
                 \* finished (history)
    \* ---- the spinlocks of the kernel and the interrupts ----
    lowner,      \* lock -> the cores that hold it (their own, for a lock
                 \* that every core has its own of)
    lcpu,        \* per core: the interrupt flag, the flags saved by
                 \* irq::without and by the handlers' entries, and the stack
                 \* of the paths it is in with its position in each
    \* ---- page faults on several cores ----
    pf,          \* per core: where it stands in page_fault, the address, what
                 \* its walk found, the frames that were FREE when the fault was
                 \* raised and the result (history)
    table_lock   \* the core that holds the lock of the TableRoot, or -1

frameVars == <<mmap, frames, statistic, fphase, fret, scen>>
tidVars == <<TIDS, TIDS_OFFSET, TIDS_USED, tpc, tloc, holders>>
pagingVars == <<tables, tlb, ipi, lapic_initialized, pret, pscen>>
schedVars == <<run_list, threads, current, sphase, sret, rr>>
rootVars == <<roots, preallocated, rret>>
vmmVars == <<FREE_VMA, USED_VMA, vphase, granted, vret>>
procVars == <<PROCESSES, process, PIDS, PIDS_OFFSET, PIDS_USED, plock, del, prel, pphase>>
bootVars == <<LIMINE_SMP, CPU_COUNT, EARLY, bsp, ap, bret>>
spinVars == <<slock, sirq, scpu>>
lockVars == <<lowner, lcpu>>
raceVars == <<pf, table_lock>>
vars == <<frameVars, tidVars, pagingVars, schedVars, rootVars, shoot, vmmVars, procVars, bootVars,
          spinVars, lockVars, raceVars>>
otherThanRace == <<frameVars, tidVars, pagingVars, schedVars, rootVars, shoot, vmmVars,
    procVars, bootVars, spinVars, lockVars>>
otherThanVmmAndRace == <<tidVars, schedVars, rootVars, shoot, procVars, bootVars, spinVars,
    lockVars>>
otherThanLock == <<frameVars, tidVars, pagingVars, schedVars, rootVars,
    shoot, vmmVars, procVars, bootVars, spinVars, raceVars>>
otherThanSpin == <<frameVars, tidVars, pagingVars, schedVars, rootVars, shoot, vmmVars, procVars, bootVars,
    lockVars, raceVars>>
otherThanBoot == <<frameVars, tidVars, pagingVars, schedVars, rootVars, shoot, vmmVars, procVars,
    spinVars, lockVars, raceVars>>
otherThanProc == <<frameVars, tidVars, pagingVars, schedVars, rootVars, shoot, vmmVars, bootVars,
    spinVars, lockVars, raceVars>>
otherThanFrame == <<tidVars, pagingVars, schedVars, rootVars, shoot, vmmVars, procVars, bootVars,
    spinVars, lockVars, raceVars>>
otherThanTid == <<frameVars, pagingVars, schedVars, rootVars, shoot, vmmVars, procVars, bootVars,
    spinVars, lockVars, raceVars>>
otherThanPagingAndFrame == <<tidVars, schedVars, rootVars, shoot, vmmVars, procVars, bootVars,
    spinVars, lockVars, raceVars>>
otherThanSched == <<frameVars, tidVars, pagingVars, rootVars, shoot, vmmVars, procVars, bootVars,
    spinVars, lockVars, raceVars>>
otherThanRoots == <<tidVars, schedVars, shoot, vmmVars, procVars, bootVars,
    spinVars, lockVars, raceVars>>
otherThanShoot == <<tidVars, schedVars, rootVars, vmmVars, procVars, bootVars,
    spinVars, lockVars, raceVars>>
otherThanVmm == <<tidVars, schedVars, rootVars, shoot, procVars, bootVars,
    spinVars, lockVars, raceVars>>

-----------------------------------------------------------------------------
(***************************************************************************)
(* Physical frames: src/src/mm/frame                                       *)
(***************************************************************************)

\* The size of a frame in bytes (the literal 4096 of frame/mod.rs).
PAGE_SIZE == 4096
\* Upper physical bounds of the placement flags (state.rs, State::setup).
BIOS_LIMIT == 1048576
ISA_LIMIT == 16777216
X86_LIMIT == 268435456
\* size_of::<FrameInfo>(): flags u64 + frame u64 + count u64.
SizeOfFrameInfo == 24
\* size_of::<Frame>(): a transparent wrapper of one 64-bit address.
SizeOfFrame == 8

\* The largest reference count the model lets reference() reach.
MaxCount == 2
\* The largest count passed to allocate_range and the longest range passed
\* to deallocate_range.
MaxRange == 2

Usable == "Usable"
KernelAndModules == "KernelAndModules"
BootloaderReclaimable == "BootloaderReclaimable"
BadMemory == "BadMemory"
\* Stands for every other LimineMemoryMapEntryType (Reserved, AcpiNvs, ...).
Reserved == "Reserved"

\* A memory-map entry covering len frames from frame number base.  Limine
\* hands out page-aligned, non-overlapping usable and reclaimable entries.
Entry(base, len, typ) ==
    [base |-> base * PAGE_SIZE, len |-> len * PAGE_SIZE, typ |-> typ]

\* The memory maps the model boots with.  Entries are sorted by base and do
\* not overlap; together they show every entry type, a hole covered by no
\* entry, an entry above the last usable frame, and a map with no usable
\* memory at all.
MemoryMaps ==
    { <<Entry(0, 3, Usable)>>,
      <<Entry(0, 1, Reserved), Entry(1, 2, Usable), Entry(3, 1, KernelAndModules)>>,
      <<Entry(0, 2, Usable), Entry(2, 1, BadMemory),
        Entry(3, 1, BootloaderReclaimable), Entry(5, 1, Usable)>>,
      <<Entry(0, 2, Usable), Entry(2, 2, Reserved)>>,
      <<Entry(0, 1, KernelAndModules), Entry(1, 1, Reserved)>> }

\* frame::index: the index of the frame containing the address.
index(address) == address \div PAGE_SIZE

Min(a, b) == IF a < b THEN a ELSE b

\* Stats::new.
StatsNew ==
    [total |-> 0, usable |-> 0, allocated |-> 0, reserved |-> 0,
     kernel |-> 0, borrowed |-> 0, poisoned |-> 0]

\* FrameInfo::new with the flags State::setup gives frame i by default:
\* POISONED plus the placement flags of its address; count 0.
DefaultFrameInfo(i) ==
    LET addr == i * PAGE_SIZE
    IN [flags |-> {"POISONED"}
                    \cup (IF addr < BIOS_LIMIT THEN {"BIOS"} ELSE {})
                    \cup (IF addr < ISA_LIMIT THEN {"ISA"} ELSE {})
                    \cup (IF addr < X86_LIMIT THEN {"X86"} ELSE {}),
        count |-> 0]

\* State::find_last_usable_frame_index.
RECURSIVE MaxEnd(_, _)
MaxEnd(map, k) ==
    IF k = 0 THEN 0
    ELSE LET e == map[k]
             rest == MaxEnd(map, k - 1)
         IN IF e.typ \in {Usable, KernelAndModules, BootloaderReclaimable}
               /\ e.base + e.len > rest
            THEN e.base + e.len ELSE rest

find_last_usable_frame_index(map) == index(MaxEnd(map, Len(map)))

\* State::find_array_location: the base of the first Usable entry that is
\* long enough for last FrameInfos, or -1 for the null address.
find_array_location(map, last) ==
    LET size == last * SizeOfFrameInfo
        fit == {k \in 1..Len(map) : map[k].typ = Usable /\ map[k].len >= size}
    IN IF fit = {} THEN 0 - 1
       ELSE map[CHOOSE k \in fit : \A j \in fit : k <= j].base

\* The body of the match in State::setup for one frame of an entry.
MarkFrame(fi, typ) ==
    CASE typ = Usable ->
           [fi EXCEPT !.flags = (@ \ {"POISONED"}) \cup {"FREE"}]
      [] typ \in {KernelAndModules, BootloaderReclaimable} ->
           [flags |-> (fi.flags \ {"POISONED"}) \cup {"KERNEL"}, count |-> 1]
      [] typ = BadMemory -> fi
      [] OTHER ->
           IF "POISONED" \notin fi.flags
           THEN [fi EXCEPT !.flags = (@ \ {"POISONED"}) \cup {"RESERVED"}]
           ELSE fi

\* The statistics updates of the same match arm.
MarkStats(st, fi, typ) ==
    CASE typ = Usable ->
           [st EXCEPT !.poisoned = @ - 1, !.usable = @ + 1]
      [] typ \in {KernelAndModules, BootloaderReclaimable} ->
           [st EXCEPT !.allocated = @ + 1, !.poisoned = @ - 1,
                      !.kernel = @ + 1, !.usable = @ + 1]
      [] typ = BadMemory -> st
      [] OTHER ->
           IF "POISONED" \notin fi.flags
           THEN [st EXCEPT !.poisoned = @ - 1, !.reserved = @ + 1]
           ELSE st

\* The inner loop of State::setup: frames i..stop-1 of one entry.
RECURSIVE MarkEntry(_, _, _, _)
MarkEntry(acc, i, stop, typ) ==
    IF i >= stop THEN acc
    ELSE MarkEntry([arr |-> [acc.arr EXCEPT ![i] = MarkFrame(@, typ)],
                    st |-> MarkStats(acc.st, acc.arr[i], typ)],
                   i + 1, stop, typ)

\* The outer loop of State::setup: the entries from k on, in order.
RECURSIVE MarkEntries(_, _, _, _)
MarkEntries(acc, map, k, last) ==
    IF k > Len(map) THEN acc
    ELSE LET e == map[k]
             start == Min(index(e.base), last)
             stop == Min(index(e.base + e.len), last)
         IN MarkEntries(MarkEntry(acc, start, stop, e.typ), map, k + 1, last)

\* The last loop of State::setup: the frames start..=stop that hold the
\* array lose FREE and gain KERNEL; their count is left as it is.
RECURSIVE MarkArray(_, _, _)
MarkArray(acc, i, stop) ==
    IF i > stop THEN acc
    ELSE MarkArray(
           [arr |-> [acc.arr EXCEPT ![i].flags = (@ \ {"FREE"}) \cup {"KERNEL"}],
            st |-> [acc.st EXCEPT !.allocated = @ + 1, !.kernel = @ + 1]],
           i + 1, stop)

\* State::setup on a memory map: whether it returns (ok) or panics (no place
\* for the array, or the slice array[start..=stop] out of range), the frame
\* array and the statistics.  A setup that panics has not installed the
\* array: State::frames stays empty.
SetupResult(map) ==
    LET last == find_last_usable_frame_index(map)
        loc == find_array_location(map, last)
        init == [arr |-> [i \in 0..(last - 1) |-> DefaultFrameInfo(i)],
                 st |-> [StatsNew EXCEPT !.poisoned = last, !.total = last]]
        marked == MarkEntries(init, map, 1, last)
        start == index(loc)
        stop == start + (last * SizeOfFrame) \div PAGE_SIZE
    IN IF loc < 0
       THEN [ok |-> FALSE, arr |-> <<>>, st |-> StatsNew]
       ELSE IF stop >= last
       THEN [ok |-> FALSE, arr |-> <<>>, st |-> StatsNew]
       ELSE LET done == MarkArray(marked, start, stop)
            IN [ok |-> TRUE, arr |-> done.arr, st |-> done.st]

\* The frames that hold the FrameInfo array itself: last * SizeOfFrameInfo
\* bytes from the array location.
ArrayFrames(map) ==
    LET last == find_last_usable_frame_index(map)
        loc == find_array_location(map, last)
    IN IF loc < 0 THEN {}
       ELSE {i \in 0..(last - 1) :
               /\ i >= index(loc)
               /\ i * PAGE_SIZE < loc + last * SizeOfFrameInfo}

NoInfo == [flags |-> {}, count |-> 0 - 1]
NoCall == [op |-> "none", arg |-> {}, res |-> 0 - 1, pre |-> NoInfo, zeroed |-> FALSE]
NoScen == [frame |-> 0 - 1, step |-> 0]

NFrames == Cardinality(DOMAIN frames)

\* The allocation flags the model passes to allocate and allocate_range.
AllocationFlagChoices == { {}, {"KERNEL", "ZEROED"}, {"BIOS"} }

\* FrameInfo::retain and FrameInfo::release (checked_add / checked_sub).
retain(fi) == [fi EXCEPT !.count = @ + 1]
release(fi) == [fi EXCEPT !.count = @ - 1]

\* The search of Allocator::allocate: the first FrameInfo carrying FREE, or
\* -1 when there is none.
AllocateFindAny(arr) ==
    LET ok == {i \in DOMAIN arr : "POISONED" \notin arr[i].flags}
    IN IF ok = {} THEN 0 - 1 ELSE CHOOSE i \in ok : \A j \in ok : i <= j

AllocateFind(arr) ==
    LET free == {i \in DOMAIN arr : "FREE" \in arr[i].flags}
    IN IF free = {} THEN 0 - 1 ELSE CHOOSE i \in free : \A j \in free : i <= j

\* The per-frame update shared by allocate and allocate_range.
AllocateFrame(fi, flags) ==
    retain([fi EXCEPT !.flags =
              (IF "KERNEL" \in flags THEN @ \cup {"KERNEL"} ELSE @) \ {"FREE"}])

AllocateStatsNoCount(st, flags) ==
    [st EXCEPT !.kernel = IF "KERNEL" \in flags THEN @ + 1 ELSE @]

AllocateStats(st, flags) ==
    [st EXCEPT !.allocated = @ + 1,
               !.kernel = IF "KERNEL" \in flags THEN @ + 1 ELSE @]

\* The scenario monitor: allocate returns f (step 1), reference(f) (2),
\* deallocate(f) (3), deallocate(f) (4).  Any other call on f starts over.
ScenAfter(op, touched) ==
    IF scen.step \in 1..3 /\ scen.frame \in touched
    THEN IF touched = {scen.frame}
            /\ \/ op = "reference" /\ scen.step = 1
               \/ op = "deallocate" /\ scen.step \in {2, 3}
         THEN [scen EXCEPT !.step = @ + 1]
         ELSE NoScen
    ELSE IF op = "allocate" /\ scen.step \in {0, 4} /\ touched # {}
    THEN [frame |-> CHOOSE f \in touched : TRUE, step |-> 1]
    ELSE IF scen.step = 4 /\ scen.frame \in touched THEN NoScen
    ELSE scen

\* mm::setup on the memory map the bootloader reports: State::setup followed
\* by Allocator::setup.
Setup(map) ==
    /\ fphase = "boot"
    /\ mmap' = map
    /\ LET r == SetupResult(map)
       IN /\ fphase' = IF r.ok THEN "ready" ELSE "panic"
          /\ frames' = r.arr
          /\ statistic' = IF r.ok THEN r.st ELSE statistic
    /\ UNCHANGED <<fret, scen>>
    /\ UNCHANGED otherThanFrame

\* Allocator::allocate.
Allocate(flags) ==
    /\ fphase = "ready"
    /\ LET f == AllocateFind(frames)
       IN IF f < 0
          THEN /\ fret' = [op |-> "allocate", arg |-> flags, res |-> 0 - 1,
                           pre |-> NoInfo, zeroed |-> FALSE]
               /\ UNCHANGED <<frames, statistic, scen>>
          ELSE /\ frames' = [frames EXCEPT ![f] = AllocateFrame(@, flags)]
               /\ statistic' = AllocateStats(statistic, flags)
               /\ fret' = [op |-> "allocate", arg |-> flags, res |-> f,
                           pre |-> frames[f], zeroed |-> "ZEROED" \in flags]
               /\ scen' = ScenAfter("allocate", {f})
    /\ UNCHANGED <<mmap, fphase>>
    /\ UNCHANGED otherThanFrame

\* The first i with i + count <= len whose count frames are all FREE, or -1.
AllocateRangeFind(arr, count) ==
    LET len == Cardinality(DOMAIN arr)
        fit == {i \in 0..(len - count) :
                  \A j \in i..(i + count - 1) : "FREE" \in arr[j].flags}
    IN IF fit = {} THEN 0 - 1 ELSE CHOOSE i \in fit : \A j \in fit : i <= j

\* Allocator::allocate_range.  The returned range reads array[i + count],
\* which is out of bounds (a panic) when the run ends the array; the frames
\* have been updated by then.
AllocateRange(count, flags) ==
    /\ fphase = "ready"
    /\ LET i == AllocateRangeFind(frames, count)
           run == IF i < 0 THEN {} ELSE i..(i + count - 1)
       IN IF i < 0
          THEN /\ fret' = [op |-> "allocate_range", arg |-> flags, res |-> 0 - 1,
                           pre |-> NoInfo, zeroed |-> FALSE]
               /\ UNCHANGED <<frames, statistic, scen, fphase>>
          ELSE /\ frames' = [j \in DOMAIN frames |->
                               IF j \in run THEN AllocateFrame(frames[j], flags)
                               ELSE frames[j]]
               /\ statistic' =
                    [statistic EXCEPT
                       !.allocated = @ + count,
                       !.kernel = IF "KERNEL" \in flags THEN @ + count ELSE @]
               /\ fret' = [op |-> "allocate_range", arg |-> flags, res |-> i,
                           pre |-> NoInfo, zeroed |-> "ZEROED" \in flags]
               /\ scen' = ScenAfter("allocate_range", run)
               /\ fphase' = IF i + count >= NFrames THEN "panic" ELSE "ready"
    /\ UNCHANGED mmap
    /\ UNCHANGED otherThanFrame

\* Allocator::reference.  get_frame_info_mut(..).unwrap() panics on a frame
\* outside the array, the assertion on a count of 0.
Reference(f) ==
    /\ fphase = "ready"
    /\ IF f \notin DOMAIN frames
       THEN /\ fphase' = "panic"
            /\ fret' = [op |-> "reference", arg |-> {}, res |-> f,
                        pre |-> NoInfo, zeroed |-> FALSE]
            /\ UNCHANGED <<frames, scen>>
       ELSE /\ frames[f].count < MaxCount
            /\ fret' = [op |-> "reference", arg |-> {}, res |-> f,
                        pre |-> frames[f], zeroed |-> FALSE]
            /\ scen' = ScenAfter("reference", {f})
            /\ IF frames[f].count > 0
               THEN /\ frames' = [frames EXCEPT ![f] = retain(@)]
                    /\ UNCHANGED fphase
               ELSE /\ fphase' = "panic"
                    /\ UNCHANGED frames
    /\ UNCHANGED <<mmap, statistic>>
    /\ UNCHANGED otherThanFrame

\* The body of Allocator::deallocate on a frame of the array whose count is
\* not 0: release, and at 0 clear KERNEL and mark FREE.
DeallocateFrameKeep(fi) == release(fi)

DeallocateFrame(fi) ==
    LET r == release(fi)
    IN IF r.count = 0
       THEN [r EXCEPT !.flags = (@ \ {"KERNEL"}) \cup {"FREE"}]
       ELSE r

DeallocateStats(st, fi) ==
    IF fi.count = 1
    THEN [st EXCEPT !.allocated = @ - 1,
                    !.kernel = IF "KERNEL" \in fi.flags THEN @ - 1 ELSE @]
    ELSE st

\* Allocator::deallocate.
Deallocate(f) ==
    /\ fphase = "ready"
    /\ fret' = [op |-> "deallocate", arg |-> {}, res |-> f,
                pre |-> IF f \in DOMAIN frames THEN frames[f] ELSE NoInfo,
                zeroed |-> FALSE]
    /\ IF f \notin DOMAIN frames
       THEN /\ fphase' = "panic"
            /\ UNCHANGED <<frames, statistic, scen>>
       ELSE /\ scen' = ScenAfter("deallocate", {f})
            /\ IF frames[f].count # 0
               THEN /\ frames' = [frames EXCEPT ![f] = DeallocateFrame(@)]
                    /\ statistic' = DeallocateStats(statistic, frames[f])
                    /\ UNCHANGED fphase
               ELSE /\ fphase' = "panic"
                    /\ UNCHANGED <<frames, statistic>>
    /\ UNCHANGED mmap
    /\ UNCHANGED otherThanFrame

\* Allocator::deallocate_range: deallocate on each frame of [start, stop),
\* in order; the first frame that panics stops it.
RECURSIVE DeallocateRun(_, _, _)
DeallocateRun(acc, i, stop) ==
    IF i >= stop \/ ~acc.ok THEN acc
    ELSE IF i \notin DOMAIN acc.arr \/ acc.arr[i].count = 0
    THEN [acc EXCEPT !.ok = FALSE]
    ELSE DeallocateRun([ok |-> TRUE,
                        arr |-> [acc.arr EXCEPT ![i] = DeallocateFrame(@)],
                        st |-> DeallocateStats(acc.st, acc.arr[i])],
                       i + 1, stop)

DeallocateRangeOp(start, stop) ==
    /\ fphase = "ready"
    /\ LET r == DeallocateRun([ok |-> TRUE, arr |-> frames, st |-> statistic],
                              start, stop)
       IN /\ frames' = r.arr
          /\ statistic' = r.st
          /\ fphase' = IF r.ok THEN "ready" ELSE "panic"
    /\ fret' = [op |-> "deallocate_range", arg |-> {}, res |-> start,
                pre |-> NoInfo, zeroed |-> FALSE]
    /\ scen' = ScenAfter("deallocate_range", start..(stop - 1))
    /\ UNCHANGED mmap
    /\ UNCHANGED otherThanFrame

FrameInit ==
    /\ mmap = <<>>
    /\ frames = <<>>
    /\ statistic = StatsNew
    /\ fphase = "boot"
    /\ fret = NoCall
    /\ scen = NoScen

\* A machine with usable memory above the BIOS limit: two frames at 0 and
\* one at 1 MiB.  Its FrameInfo array has 257 entries and is longer than one
\* frame.
HighMemoryMap ==
    <<Entry(0, 2, Usable), Entry(BIOS_LIMIT \div PAGE_SIZE, 1, Usable)>>

\* The frames of the array that some entry of the memory map covers.
CoveredFrames ==
    {i \in DOMAIN frames :
       \E k \in 1..Len(mmap) :
          index(mmap[k].base) <= i /\ i < index(mmap[k].base + mmap[k].len)}

\* The allocator on the machine with high memory; the calls that take a frame
\* are made on the frames the memory map covers.
HighMemoryNext ==
    \/ Setup(HighMemoryMap)
    \/ \E flags \in AllocationFlagChoices : Allocate(flags)
    \/ \E f \in CoveredFrames : Reference(f)
    \/ \E f \in CoveredFrames : Deallocate(f)

FrameNext ==
    \/ \E map \in MemoryMaps : Setup(map)
    \/ \E flags \in AllocationFlagChoices : Allocate(flags)
    \/ \E count \in 0..MaxRange, flags \in AllocationFlagChoices :
         AllocateRange(count, flags)
    \/ \E f \in 0..NFrames : Reference(f)
    \/ \E f \in 0..NFrames : Deallocate(f)
    \/ \E start \in 0..NFrames, n \in 1..MaxRange :
         DeallocateRangeOp(start, start + n)

-----------------------------------------------------------------------------
(***************************************************************************)
(* Thread identifiers: src/src/sys/thread.rs (Pid in src/src/sys/process.rs *)
(* is the same code over PIDS, PIDS_OFFSET and PIDS_USED)                  *)
(***************************************************************************)

\* size_of::<u64>(), the divisor of the bitmap's index and bit offset.
SizeOfU64 == 8
\* Tid::MAX, scaled down from 32768.
MaxTid == 10
MAX == MaxTid
\* The cores that create and drop threads.
NCpu == 2
CPUs == 0..(NCpu - 1)

\* The length of TIDS, Tid::MAX / size_of::<u64>().  The real MAX is a
\* multiple of 8; a scaled MAX that is not rounds up, so that every
\* identifier below MAX still has its word.
TidWords == (MAX + SizeOfU64 - 1) \div SizeOfU64

TidIndex(tid) == tid \div SizeOfU64
TidOff(tid) == tid % SizeOfU64

\* Tid::release: clears the bit of tid.  TIDS_USED is left alone.
ReleaseBits(bits, tid) ==
    [bits EXCEPT ![TidIndex(tid)] = @ \ {TidOff(tid)}]

\* A generate that hands out identifier 0 whatever the offset and the bitmap.
GenerateProbeZero(bits, raw) ==
    [tid |-> 0, ok |-> TRUE, bits |-> [bits EXCEPT ![0] = @ \cup {0}]]

\* One turn of the loop of Tid::generate, after TIDS_OFFSET.fetch_add has
\* returned raw: the identifier, whether its bit was clear, and the bitmap.
GenerateProbe(bits, raw) ==
    LET tid == raw % MAX
        idx == TidIndex(tid)
        off == TidOff(tid)
    IN IF off \notin bits[idx]
       THEN [tid |-> tid, ok |-> TRUE, bits |-> [bits EXCEPT ![idx] = @ \cup {off}]]
       ELSE [tid |-> tid, ok |-> FALSE, bits |-> bits]

\* Builder::build calls Tid::generate: TIDS_USED.fetch_add(1) and the test
\* against MAX.
TidGenerateEnter(c) ==
    /\ tpc[c] = "idle"
    /\ TIDS_USED' = TIDS_USED + 1
    /\ tpc' = [tpc EXCEPT ![c] = IF TIDS_USED + 1 >= MAX THEN "full" ELSE "fetch"]
    /\ UNCHANGED <<TIDS, TIDS_OFFSET, tloc, holders>>
    /\ UNCHANGED otherThanTid

\* Tid::generate gives up: TIDS_USED.fetch_sub(1), None.  build returns
\* NoFreeTid and the Builder's thread, which still carries Tid(0), is dropped.
TidGenerateFull(c) ==
    /\ tpc[c] = "full"
    /\ TIDS_USED' = TIDS_USED - 1
    /\ tpc' = [tpc EXCEPT ![c] = "drop"]
    /\ tloc' = [tloc EXCEPT ![c] = 0]
    /\ UNCHANGED <<TIDS, TIDS_OFFSET, holders>>
    /\ UNCHANGED otherThanTid

\* TIDS_OFFSET.fetch_add(1) of the loop of Tid::generate.
TidGenerateFetch(c) ==
    /\ tpc[c] = "fetch"
    /\ tloc' = [tloc EXCEPT ![c] = TIDS_OFFSET]
    /\ TIDS_OFFSET' = TIDS_OFFSET + 1
    /\ tpc' = [tpc EXCEPT ![c] = "probe"]
    /\ UNCHANGED <<TIDS, TIDS_USED, holders>>
    /\ UNCHANGED otherThanTid

\* The locked test and set of the loop of Tid::generate; on success
\* generate returns the identifier and build goes on to the kernel stack.
TidGenerateProbe(c) ==
    /\ tpc[c] = "probe"
    /\ LET r == GenerateProbe(TIDS, tloc[c])
       IN IF r.ok
          THEN /\ TIDS' = r.bits
               /\ holders' = [holders EXCEPT ![r.tid] = @ + 1]
               /\ tloc' = [tloc EXCEPT ![c] = r.tid]
               /\ tpc' = [tpc EXCEPT ![c] = "kstack"]
          ELSE /\ tpc' = [tpc EXCEPT ![c] = "fetch"]
               /\ UNCHANGED <<TIDS, holders, tloc>>
    /\ UNCHANGED <<TIDS_OFFSET, TIDS_USED>>
    /\ UNCHANGED otherThanTid

\* Builder::build: vmm::allocate succeeds, the thread is built.
BuildOk(c) ==
    /\ tpc[c] = "kstack"
    /\ tpc' = [tpc EXCEPT ![c] = "idle"]
    /\ tloc' = [tloc EXCEPT ![c] = 0 - 1]
    /\ UNCHANGED <<TIDS, TIDS_OFFSET, TIDS_USED, holders>>
    /\ UNCHANGED otherThanTid

\* Builder::build: vmm::allocate fails, map_err releases the identifier;
\* the Builder's thread, which carries it, is dropped next.
BuildOutOfMemory(c) ==
    /\ tpc[c] = "kstack"
    /\ TIDS' = ReleaseBits(TIDS, tloc[c])
    /\ holders' = [holders EXCEPT ![tloc[c]] = @ - 1]
    /\ tpc' = [tpc EXCEPT ![c] = "drop"]
    /\ UNCHANGED <<TIDS_OFFSET, TIDS_USED, tloc>>
    /\ UNCHANGED otherThanTid

\* Thread::drop of the thread of a Builder whose build failed: it releases
\* whatever identifier the thread carries.
ThreadDropUnbuilt(c) ==
    /\ tpc[c] = "drop"
    /\ TIDS' = ReleaseBits(TIDS, tloc[c])
    /\ tpc' = [tpc EXCEPT ![c] = "idle"]
    /\ tloc' = [tloc EXCEPT ![c] = 0 - 1]
    /\ UNCHANGED <<TIDS_OFFSET, TIDS_USED, holders>>
    /\ UNCHANGED otherThanTid

\* Thread::drop of a built thread: Tid::release of its identifier.
ThreadDrop(c, tid) ==
    /\ tpc[c] = "idle"
    /\ holders[tid] > 0
    /\ TIDS' = ReleaseBits(TIDS, tid)
    /\ holders' = [holders EXCEPT ![tid] = @ - 1]
    /\ UNCHANGED <<TIDS_OFFSET, TIDS_USED, tpc, tloc>>
    /\ UNCHANGED otherThanTid

TidInit ==
    /\ TIDS = [w \in 0..(TidWords - 1) |-> {}]
    /\ TIDS_OFFSET = 0
    /\ TIDS_USED = 0
    /\ tpc = [c \in CPUs |-> "idle"]
    /\ tloc = [c \in CPUs |-> 0 - 1]
    /\ holders = [t \in 0..(MAX - 1) |-> 0]

TidNext ==
    \/ \E c \in CPUs : TidGenerateEnter(c)
    \/ \E c \in CPUs : TidGenerateFull(c)
    \/ \E c \in CPUs : TidGenerateFetch(c)
    \/ \E c \in CPUs : TidGenerateProbe(c)
    \/ \E c \in CPUs : BuildOk(c)
    \/ \E c \in CPUs : BuildOutOfMemory(c)
    \/ \E c \in CPUs : ThreadDropUnbuilt(c)
    \/ \E c \in CPUs, tid \in 0..(MAX - 1) : ThreadDrop(c, tid)

-----------------------------------------------------------------------------
(***************************************************************************)
(* Page tables: src/src/arch/paging.rs.  PageEntry, PageTable and Virtual  *)
(* come from the x86_64 crate and are modelled after the specification:    *)
(* an entry is an address and a set of flags, a table is COUNT entries,    *)
(* and the levels run from 4 (PML4) down to 1 (PT).                        *)
(***************************************************************************)

\* PageTable::COUNT, scaled down from 512.
PageTableCount == 2
COUNT == PageTableCount

\* What the bootloader reports when the page tables are exercised: six
\* usable frames and the frame of the boot PML4.
PagingMap == <<Entry(0, 6, Usable), Entry(6, 1, BootloaderReclaimable)>>
\* The frame of the root table (the boot PML4 that INIT_TABLE wraps).
BootPml4 == index(PagingMap[2].base)

RECURSIVE Pow(_, _)
Pow(b, e) == IF e = 0 THEN 1 ELSE b * Pow(b, e - 1)

\* The virtual addresses the model maps: two pages of one page table and
\* the last page of the address space.
VirtualChoices ==
    {PAGE_SIZE * n : n \in {0, 1, Pow(COUNT, 4) - 1}}
\* The frames callers hand to map: the null frame and a frame outside the
\* allocator's memory.
GivenFrames == {0, PAGE_SIZE * (BootPml4 + 1)}
MapFlagChoices == { {"PRESENT", "WRITABLE"}, {"PRESENT"}, {"WRITABLE"} }
\* The flags the walker on its own is driven with.
WalkFlagChoices == { {"PRESENT", "WRITABLE"}, {"WRITABLE"} }

\* PageEntry: the zeroed entry, is_present, clear, set_address, set_flags,
\* add_flags.
EmptyEntry == [addr |-> 0, flags |-> {}]
is_present(e) == "PRESENT" \in e.flags
clear(e) == EmptyEntry
set_address(e, addr) == [e EXCEPT !.addr = addr]
set_flags(e, flags) == [e EXCEPT !.flags = flags]
add_flags(e, flags) == [e EXCEPT !.flags = @ \cup flags]
\* A zeroed frame read as a PageTable.
ZeroTable == [i \in 0..(COUNT - 1) |-> EmptyEntry]
\* Virtual::page_index: the index of the address in the table of a level.
page_index(at, level) == (at \div (PAGE_SIZE * Pow(COUNT, level - 1))) % COUNT

\* The kernel's own allocation of a table or of a page:
\* FRAME_ALLOCATOR.lock().allocate(KERNEL | ZEROED).
KernelZeroed == {"KERNEL", "ZEROED"}

\* Nothing found (None).
NoPte == [ok |-> FALSE, table |-> 0 - 1, idx |-> 0 - 1]

\* fetch_pte / fetch_pte_mut: the table and index of the leaf entry of at,
\* or None when an entry on the way is not present.
RECURSIVE fetch_pte(_, _, _, _)
fetch_pte(tbl, table, level, at) ==
    LET i == page_index(at, level)
        entry == tbl[table][i]
    IN IF is_present(entry)
       THEN IF level > 1
            THEN fetch_pte(tbl, index(entry.addr), level - 1, at)
            ELSE [ok |-> TRUE, table |-> table, idx |-> i]
       ELSE NoPte

\* creat_and_fetch_pte: as fetch_pte, but a missing table is allocated,
\* zeroed and entered PRESENT | WRITABLE.  The result carries the tables,
\* the frame array and the statistics as the walk leaves them, also when
\* an allocation fails half way (None).
RECURSIVE creat_and_fetch_pte(_, _, _, _, _, _)
creat_and_fetch_pte(tbl, frs, st, table, level, at) ==
    LET i == page_index(at, level)
        entry == tbl[table][i]
        need == ~is_present(entry) /\ level # 1
        f == AllocateFind(frs)
    IN IF need /\ f < 0
       THEN [ok |-> FALSE, table |-> 0 - 1, idx |-> 0 - 1,
             tbl |-> tbl, frs |-> frs, st |-> st]
       ELSE LET tbl1 == IF need
                        THEN (f :> ZeroTable) @@
                             [tbl EXCEPT ![table][i] =
                                set_address(add_flags(@, {"PRESENT", "WRITABLE"}),
                                            f * PAGE_SIZE)]
                        ELSE tbl
                frs1 == IF need
                        THEN [frs EXCEPT ![f] = AllocateFrame(@, KernelZeroed)]
                        ELSE frs
                st1 == IF need THEN AllocateStats(st, KernelZeroed) ELSE st
            IN IF level > 1
               THEN creat_and_fetch_pte(tbl1, frs1, st1,
                                        index(tbl1[table][i].addr), level - 1, at)
               ELSE [ok |-> TRUE, table |-> table, idx |-> i,
                     tbl |-> tbl1, frs |-> frs1, st |-> st1]

\* translate: the physical address of at, or -1 for None.
translate(tbl, at) ==
    LET pte == fetch_pte(tbl, BootPml4, 4, at)
    IN IF pte.ok /\ is_present(tbl[pte.table][pte.idx])
       THEN tbl[pte.table][pte.idx].addr + (at % PAGE_SIZE)
       ELSE 0 - 1

\* protection: the flags of the leaf entry of at, or {"None"}.
protection(tbl, at) ==
    LET pte == fetch_pte(tbl, BootPml4, 4, at)
    IN IF pte.ok /\ is_present(tbl[pte.table][pte.idx])
       THEN tbl[pte.table][pte.idx].flags
       ELSE {"None"}

\* The results of map.
MapOk == 0
OutOfMemory == 0 - 1
AlreadyMapped == 0 - 2

\* A shootdown that sends the interrupt whatever the local APIC reports.
ShootdownIpiAlways(c) == [o \in CPUs |-> IF o = c THEN ipi[o] ELSE TRUE]

\* A map that takes no leaf entry for mapped.
LeafTakenNever(pte) == FALSE

\* The test of map on the leaf entry: if pte.is_present().
LeafTaken(pte) == is_present(pte)

\* map(table, at, frame, flags) on the table held by the frame root: the
\* result, and the tables, frame array and statistics afterwards.
MapResultIn(root, tbl, frs, st, at, frame, flags) ==
    LET w == creat_and_fetch_pte(tbl, frs, st, root, 4, at)
        f == AllocateFind(w.frs)
    IN IF ~w.ok
       THEN [res |-> OutOfMemory, tbl |-> w.tbl, frs |-> w.frs, st |-> w.st]
       ELSE IF LeafTaken(w.tbl[w.table][w.idx])
       THEN [res |-> AlreadyMapped, tbl |-> w.tbl, frs |-> w.frs, st |-> w.st]
       ELSE IF frame = 0 /\ f < 0
       THEN [res |-> OutOfMemory, tbl |-> w.tbl, frs |-> w.frs, st |-> w.st]
       ELSE LET start == IF frame = 0 THEN f * PAGE_SIZE ELSE frame
            IN [res |-> MapOk,
                tbl |-> [w.tbl EXCEPT ![w.table][w.idx] =
                            set_flags(set_address(@, start), flags)],
                frs |-> IF frame = 0
                        THEN [w.frs EXCEPT ![f] = AllocateFrame(@, KernelZeroed)]
                        ELSE w.frs,
                st |-> IF frame = 0 THEN AllocateStats(w.st, KernelZeroed) ELSE w.st]

\* map on the boot PML4.
MapResult(tbl, frs, st, at, frame, flags) ==
    MapResultIn(BootPml4, tbl, frs, st, at, frame, flags)

\* An unmap that leaves the leaf entry as it is.
UnmapTablesKeep(tbl, at) == tbl

\* unmap: the tables after pte.clear() of the present leaf entry of at.
UnmapTables(tbl, at) ==
    LET pte == fetch_pte(tbl, BootPml4, 4, at)
    IN [tbl EXCEPT ![pte.table][pte.idx] = clear(@)]

\* change_protection: the tables after pte.set_flags(flags) on the present
\* leaf entry of at.
ChangeProtectionTables(tbl, at, flags) ==
    LET pte == fetch_pte(tbl, BootPml4, 4, at)
    IN [tbl EXCEPT ![pte.table][pte.idx] = set_flags(@, flags)]

\* Is the leaf entry of at found and present?
Mapped(tbl, at) ==
    LET pte == fetch_pte(tbl, BootPml4, 4, at)
    IN pte.ok /\ is_present(tbl[pte.table][pte.idx])

\* The leaf entry of a mapped address.
Leaf(tbl, at) ==
    LET pte == fetch_pte(tbl, BootPml4, 4, at)
    IN tbl[pte.table][pte.idx]

\* tlb::flush_all: reloading CR3 empties the TLB of the core.
FlushedTlb == [at \in VirtualChoices |-> EmptyEntry]

\* tlb::shootdown on core c: the TLBs afterwards.
ShootdownTlb(c) == [tlb EXCEPT ![c] = FlushedTlb]

\* tlb::shootdown on core c: the shootdown interrupts pending afterwards.
\* lapic::send_ipi(OtherCores, ..) raises the vector on every other core and
\* returns without waiting for them.
ShootdownIpi(c) ==
    IF lapic_initialized
    THEN [o \in CPUs |-> IF o = c THEN ipi[o] ELSE TRUE]
    ELSE ipi

NoPagingCall ==
    [op |-> "none", cpu |-> 0 - 1, at |-> 0 - 1, frame |-> 0 - 1, val |-> 0 - 1,
     flags |-> {}]
NoRoundTrip ==
    [at |-> 0 - 1, frame |-> 0 - 1, flags |-> {}, step |-> 0,
     m |-> 0, t1 |-> 0 - 1, u |-> 0 - 1, t2 |-> 0 - 1]

\* The record of map; translate; unmap; translate on one address after a
\* further call.  Calls on other addresses leave a running record alone.
RoundTripAfter(op, at, frame, flags, val) ==
    IF op = "map"
    THEN IF ~Mapped(tables, at) /\ (pscen.step \in {0, 4} \/ at = pscen.at)
         THEN [NoRoundTrip EXCEPT !.at = at, !.frame = frame, !.flags = flags,
                                  !.step = 1, !.m = val]
         ELSE IF at = pscen.at THEN NoRoundTrip ELSE pscen
    ELSE IF at # pscen.at THEN pscen
    ELSE IF op = "translate"
    THEN IF pscen.step = 1 THEN [pscen EXCEPT !.step = 2, !.t1 = val]
         ELSE IF pscen.step = 3 THEN [pscen EXCEPT !.step = 4, !.t2 = val]
         ELSE pscen
    ELSE IF op = "unmap" /\ pscen.step = 2
    THEN [pscen EXCEPT !.step = 3, !.u = val]
    ELSE IF pscen.step \in 1..3 THEN NoRoundTrip ELSE pscen

\* map(table, at, frame, flags) on the root table.
Map(at, frame, flags) ==
    /\ fphase = "ready"
    /\ LET r == MapResult(tables, frames, statistic, at, frame, flags)
       IN /\ tables' = r.tbl
          /\ frames' = r.frs
          /\ statistic' = r.st
          /\ pret' = [op |-> "map", cpu |-> 0 - 1, at |-> at, frame |-> frame, val |-> r.res,
                      flags |-> flags]
          /\ pscen' = RoundTripAfter("map", at, frame, flags, r.res)
    /\ UNCHANGED <<tlb, ipi, lapic_initialized>>
    /\ UNCHANGED <<mmap, fphase, fret, scen>>
    /\ UNCHANGED otherThanPagingAndFrame

\* unmap(table, at) on core c.
Unmap(c, at) ==
    /\ fphase = "ready"
    /\ c = 0 \/ lapic_initialized
    /\ IF Mapped(tables, at)
       THEN /\ tables' = UnmapTables(tables, at)
            /\ tlb' = ShootdownTlb(c)
            /\ ipi' = ShootdownIpi(c)
            /\ pret' = [op |-> "unmap", cpu |-> c, at |-> at, frame |-> 0 - 1,
                        val |-> Leaf(tables, at).addr + (at % PAGE_SIZE),
                        flags |-> {}]
            /\ pscen' = RoundTripAfter("unmap", at, 0, {},
                                       Leaf(tables, at).addr + (at % PAGE_SIZE))
       ELSE /\ pret' = [op |-> "unmap", cpu |-> c, at |-> at, frame |-> 0 - 1, val |-> 0 - 1,
                        flags |-> {}]
            /\ pscen' = RoundTripAfter("unmap", at, 0, {}, 0 - 1)
            /\ UNCHANGED <<tables, tlb, ipi>>
    /\ UNCHANGED lapic_initialized
    /\ UNCHANGED frameVars
    /\ UNCHANGED otherThanPagingAndFrame

\* change_protection(table, at, flags) on core c.
ChangeProtection(c, at, flags) ==
    /\ fphase = "ready"
    /\ c = 0 \/ lapic_initialized
    /\ IF Mapped(tables, at)
       THEN /\ tables' = ChangeProtectionTables(tables, at, flags)
            /\ tlb' = ShootdownTlb(c)
            /\ ipi' = ShootdownIpi(c)
            /\ pret' = [op |-> "change_protection", cpu |-> c, at |-> at, frame |-> 0 - 1,
                        val |-> 0, flags |-> Leaf(tables, at).flags]
       ELSE /\ pret' = [op |-> "change_protection", cpu |-> c, at |-> at, frame |-> 0 - 1,
                        val |-> 0 - 1, flags |-> {}]
            /\ UNCHANGED <<tables, tlb, ipi>>
    /\ pscen' = RoundTripAfter("change_protection", at, 0, flags, 0)
    /\ UNCHANGED lapic_initialized
    /\ UNCHANGED frameVars
    /\ UNCHANGED otherThanPagingAndFrame

\* translate(table, at).
Translate(at) ==
    /\ fphase = "ready"
    /\ pret' = [op |-> "translate", cpu |-> 0 - 1, at |-> at, frame |-> 0 - 1,
                val |-> translate(tables, at), flags |-> {}]
    /\ pscen' = RoundTripAfter("translate", at, 0, {}, translate(tables, at))
    /\ UNCHANGED <<tables, tlb, ipi, lapic_initialized>>
    /\ UNCHANGED frameVars
    /\ UNCHANGED otherThanPagingAndFrame

\* Core c reads or writes the page of at: when its TLB has no entry for the
\* page and the walk finds a present leaf, the TLB caches the leaf.
Access(c, at) ==
    /\ fphase = "ready"
    /\ c = 0 \/ lapic_initialized
    /\ tlb[c][at] = EmptyEntry
    /\ Mapped(tables, at)
    /\ tlb' = [tlb EXCEPT ![c][at] = Leaf(tables, at)]
    /\ UNCHANGED <<tables, ipi, lapic_initialized, pret, pscen>>
    /\ UNCHANGED frameVars
    /\ UNCHANGED otherThanPagingAndFrame

\* tlb_shootdown_handler on core c: flush_all, then the end of interrupt.
TlbShootdownHandler(c) ==
    /\ ipi[c]
    /\ tlb' = [tlb EXCEPT ![c] = FlushedTlb]
    /\ ipi' = [ipi EXCEPT ![c] = FALSE]
    /\ UNCHANGED <<tables, lapic_initialized, pret, pscen>>
    /\ UNCHANGED frameVars
    /\ UNCHANGED otherThanPagingAndFrame

\* acpi::setup: lapic::setup and lapic::enable; the other cores start after.
LapicSetup ==
    /\ fphase = "ready"
    /\ ~lapic_initialized
    /\ lapic_initialized' = TRUE
    /\ UNCHANGED <<tables, tlb, ipi, pret, pscen>>
    /\ UNCHANGED frameVars
    /\ UNCHANGED otherThanPagingAndFrame

PagingInit ==
    /\ tables = [f \in 0..(BootPml4 + 1) |-> ZeroTable]
    /\ tlb = [c \in CPUs |-> FlushedTlb]
    /\ ipi = [c \in CPUs |-> FALSE]
    /\ lapic_initialized = FALSE
    /\ pret = NoPagingCall
    /\ pscen = NoRoundTrip

\* The page-table walker on its own.
PagingNext ==
    \/ \E map \in {PagingMap} : Setup(map)
    \/ \E at \in VirtualChoices, frame \in GivenFrames, flags \in WalkFlagChoices :
         Map(at, frame, flags)
    \/ \E at \in VirtualChoices : Unmap(0, at)
    \/ \E at \in VirtualChoices, flags \in WalkFlagChoices :
         ChangeProtection(0, at, flags)
    \/ \E at \in VirtualChoices : Translate(at)

\* The frames the cores' TLBs are exercised with.
ShootdownFrames == GivenFrames \ {0}
ShootdownPages == {0, PAGE_SIZE * (Pow(COUNT, 4) - 1)}

\* The page tables with the cores' TLBs and the shootdown interrupt.
ShootdownNext ==
    \/ \E map \in {PagingMap} : Setup(map)
    \/ LapicSetup
    \/ \E at \in ShootdownPages, frame \in ShootdownFrames, flags \in MapFlagChoices :
         Map(at, frame, flags)
    \/ \E c \in CPUs, at \in ShootdownPages : Unmap(c, at)
    \/ \E c \in CPUs, at \in ShootdownPages, flags \in MapFlagChoices :
         ChangeProtection(c, at, flags)
    \/ \E c \in CPUs, at \in ShootdownPages : Access(c, at)
    \/ \E c \in CPUs : TlbShootdownHandler(c)

-----------------------------------------------------------------------------
(***************************************************************************)
(* Address spaces: TableRoot and paging::setup of src/src/arch/paging.rs.  *)
(* INIT_TABLE wraps the boot PML4 and ACTIVE_TABLE is a clone of the Arc   *)
(* that holds it, so both name the table in the frame BootPml4.            *)
(***************************************************************************)

\* The roots that new and clone may create.
MaxRoots == 2

\* Virtual::new(KERNEL_BASE).pml4_offset(): the first PML4 index of the
\* kernel half (256 of 512).
KernelStart == COUNT \div 2
KernelHalf == KernelStart..(COUNT - 1)
IsKernelAddress(at) == page_index(at, 4) \in KernelHalf

\* The virtual addresses used on the roots: the first page of the user
\* half, and in the kernel half the pages 1011 and 1111 (the digits of the
\* page number in base COUNT are the indices of the four levels).
RootVirtualChoices ==
    {0,
     PAGE_SIZE * (KernelStart * Pow(COUNT, 3) + COUNT + 1),
     PAGE_SIZE * (KernelStart * Pow(COUNT, 3) + Pow(COUNT, 2) + COUNT + 1)}

\* What a frame allocated without ZEROED holds when it is read as a page
\* table: nothing is written to it, so it holds what the memory held
\* before.  Either zeroes, or stale bytes that read as present entries: the
\* first one naming the frame itself, the others the boot PML4.
UninitializedTables(f) ==
    {ZeroTable,
     [i \in 0..(COUNT - 1) |->
        [addr |-> PAGE_SIZE * (IF i = 0 THEN f ELSE BootPml4),
         flags |-> {"PRESENT"}]]}

\* The loop of paging::setup over the PML4 indices from i on: an entry that
\* is not present gets a frame allocated with KERNEL only, entered PRESENT |
\* WRITABLE.  stale tells what the frames hold.  ok is FALSE when an
\* allocation fails (expect panics).
RECURSIVE Preallocate(_, _, _)
Preallocate(acc, i, stale) ==
    IF i >= COUNT \/ ~acc.ok THEN acc
    ELSE IF is_present(acc.tbl[BootPml4][i])
    THEN Preallocate(acc, i + 1, stale)
    ELSE LET f == AllocateFind(acc.frs)
             held == IF stale
                     THEN CHOOSE t \in UninitializedTables(f) : t # ZeroTable
                     ELSE ZeroTable
         IN IF f < 0 THEN [acc EXCEPT !.ok = FALSE]
            ELSE Preallocate(
                   [ok |-> TRUE,
                    tbl |-> [acc.tbl EXCEPT
                               ![f] = held,
                               ![BootPml4][i] =
                                  set_flags(set_address(@, f * PAGE_SIZE),
                                            {"PRESENT", "WRITABLE"})],
                    frs |-> [acc.frs EXCEPT ![f] = AllocateFrame(@, {"KERNEL"})],
                    st |-> AllocateStats(acc.st, {"KERNEL"})],
                   i + 1, stale)

RootFrames == {r.frame : r \in roots}
NoRootCall == [op |-> "none", root |-> 0 - 1, at |-> 0 - 1, val |-> 0 - 1]

\* translate through the table held by the frame root.
translate_in(root, tbl, at) ==
    LET pte == fetch_pte(tbl, root, 4, at)
    IN IF pte.ok /\ is_present(tbl[pte.table][pte.idx])
       THEN tbl[pte.table][pte.idx].addr + (at % PAGE_SIZE)
       ELSE 0 - 1

\* paging::setup.
PagingSetup(stale) ==
    /\ fphase = "ready"
    /\ ~preallocated
    /\ LET r == Preallocate([ok |-> TRUE, tbl |-> tables, frs |-> frames,
                             st |-> statistic], KernelStart, stale)
       IN /\ tables' = r.tbl
          /\ frames' = r.frs
          /\ statistic' = r.st
          /\ fphase' = IF r.ok THEN "ready" ELSE "panic"
    /\ preallocated' = TRUE
    /\ rret' = [NoRootCall EXCEPT !.op = "setup"]
    /\ UNCHANGED <<mmap, fret, scen, roots>>
    /\ UNCHANGED <<tlb, ipi, lapic_initialized, pret, pscen>>
    /\ UNCHANGED otherThanRoots

\* TableRoot::new (from = -1) and TableRoot::clone of the root in the frame
\* from: a frame is allocated KERNEL | ZEROED (unwrap and expect panic when
\* there is none); new copies the kernel half of INIT_TABLE into it, clone
\* the whole table of its source.
TableRootCreate(from) ==
    /\ fphase = "ready"
    /\ preallocated
    /\ Cardinality(roots) < MaxRoots
    /\ LET f == AllocateFind(frames)
       IN IF f < 0
          THEN /\ fphase' = "panic"
               /\ UNCHANGED <<tables, frames, statistic, roots, rret>>
          ELSE /\ frames' = [frames EXCEPT ![f] = AllocateFrame(@, KernelZeroed)]
               /\ statistic' = AllocateStats(statistic, KernelZeroed)
               /\ tables' =
                    [tables EXCEPT ![f] =
                       IF from < 0
                       THEN [i \in 0..(COUNT - 1) |->
                               IF i \in KernelHalf THEN tables[BootPml4][i]
                               ELSE EmptyEntry]
                       ELSE tables[from]]
               /\ roots' = roots \cup {[frame |-> f, parent |-> from]}
               /\ rret' = [op |-> IF from < 0 THEN "new" ELSE "clone",
                           root |-> f, at |-> 0 - 1, val |-> from]
               /\ UNCHANGED fphase
    /\ UNCHANGED <<mmap, fret, scen, preallocated>>
    /\ UNCHANGED <<tlb, ipi, lapic_initialized, pret, pscen>>
    /\ UNCHANGED otherThanRoots

\* map(&mut root, at, frame, flags) on the root in the frame root.
RootMap(root, at, frame, flags) ==
    /\ fphase = "ready"
    /\ preallocated
    /\ LET r == MapResultIn(root, tables, frames, statistic, at, frame, flags)
       IN /\ tables' = r.tbl
          /\ frames' = r.frs
          /\ statistic' = r.st
          /\ rret' = [op |-> "map", root |-> root, at |-> at, val |-> r.res]
    /\ UNCHANGED <<mmap, fphase, fret, scen, roots, preallocated>>
    /\ UNCHANGED <<tlb, ipi, lapic_initialized, pret, pscen>>
    /\ UNCHANGED otherThanRoots

\* unmap(&mut root, at) on core 0, on the root in the frame root.
RootUnmap(root, at) ==
    /\ fphase = "ready"
    /\ preallocated
    /\ LET pte == fetch_pte(tables, root, 4, at)
       IN IF pte.ok
          THEN /\ tables' = [tables EXCEPT ![pte.table][pte.idx] = clear(@)]
               /\ tlb' = ShootdownTlb(0)
               /\ ipi' = ShootdownIpi(0)
               /\ rret' = [op |-> "unmap", root |-> root, at |-> at,
                           val |-> translate_in(root, tables, at)]
          ELSE /\ rret' = [op |-> "unmap", root |-> root, at |-> at, val |-> 0 - 1]
               /\ UNCHANGED <<tables, tlb, ipi>>
    /\ UNCHANGED <<roots, preallocated>>
    /\ UNCHANGED <<lapic_initialized, pret, pscen>>
    /\ UNCHANGED frameVars
    /\ UNCHANGED otherThanRoots

RootInit ==
    /\ roots = {}
    /\ preallocated = FALSE
    /\ rret = NoRootCall

\* The address spaces: boot, then roots are created, and pages are mapped
\* and unmapped through the boot root and through the roots created.
RootsNext ==
    \/ \E map \in {PagingMap} : Setup(map)
    \/ \E stale \in BOOLEAN : PagingSetup(stale)
    \/ \E from \in {0 - 1, BootPml4} \cup RootFrames : TableRootCreate(from)
    \/ \E root \in {BootPml4} \cup RootFrames, at \in RootVirtualChoices,
          frame \in GivenFrames \ {0} :
         RootMap(root, at, frame, {"PRESENT", "WRITABLE"})
    \/ \E root \in {BootPml4} \cup RootFrames, at \in RootVirtualChoices :
         RootUnmap(root, at)

-----------------------------------------------------------------------------
(***************************************************************************)
(* unmap and change_protection one step at a time: inside irq::without the *)
(* leaf entry is written, then tlb::shootdown runs flush_all and, when the *)
(* local APIC is initialized, send_ipi.  A core that is inside the call    *)
(* does nothing else, and takes no interrupt until irq::without ends.      *)
(***************************************************************************)

NotShooting == [pc |-> "idle", op |-> "none", at |-> 0 - 1, irq |-> TRUE, log |-> <<>>]

\* unmap (op "unmap") or change_protection(flags) on core c, up to the
\* write of the leaf entry.  On an address that is not mapped the call
\* returns None at once.
LeafWrite(c, op, at, flags) ==
    /\ fphase = "ready"
    /\ c = 0 \/ lapic_initialized
    /\ shoot[c].pc = "idle"
    /\ IF Mapped(tables, at)
       THEN /\ tables' = IF op = "unmap" THEN UnmapTables(tables, at)
                         ELSE ChangeProtectionTables(tables, at, flags)
            /\ shoot' = [shoot EXCEPT ![c] =
                           [pc |-> "flush_all", op |-> op, at |-> at,
                            irq |-> FALSE, log |-> <<"write">>]]
       ELSE /\ shoot' = [shoot EXCEPT ![c] =
                           [NotShooting EXCEPT !.op = op, !.at = at]]
            /\ UNCHANGED tables
    /\ UNCHANGED <<tlb, ipi, lapic_initialized, pret, pscen>>
    /\ UNCHANGED frameVars
    /\ UNCHANGED otherThanShoot

\* tlb::flush_all inside tlb::shootdown on core c.
ShootFlushAll(c) ==
    /\ shoot[c].pc = "flush_all"
    /\ tlb' = [tlb EXCEPT ![c] = FlushedTlb]
    /\ shoot' = [shoot EXCEPT ![c].pc = "send_ipi",
                              ![c].log = Append(@, "flush_all")]
    /\ UNCHANGED <<tables, ipi, lapic_initialized, pret, pscen>>
    /\ UNCHANGED frameVars
    /\ UNCHANGED otherThanShoot

\* The rest of tlb::shootdown on core c: send_ipi when lapic::initialized();
\* then irq::without restores the interrupts and the call returns.  The log
\* notes send_ipi when the interrupt was raised on the other cores.
ShootSendIpi(c) ==
    /\ shoot[c].pc = "send_ipi"
    /\ ipi' = ShootdownIpi(c)
    /\ shoot' = [shoot EXCEPT
                   ![c].pc = "idle",
                   ![c].irq = TRUE,
                   ![c].log = IF ipi' # ipi \/ lapic_initialized
                              THEN @ \o <<"send_ipi", "return">>
                              ELSE Append(@, "return")]
    /\ UNCHANGED <<tables, tlb, lapic_initialized, pret, pscen>>
    /\ UNCHANGED frameVars
    /\ UNCHANGED otherThanShoot

ShootInit == shoot = [c \in CPUs |-> NotShooting]

\* Two cores map, unmap, change protections and touch pages; the second
\* core runs once the local APIC is set up (by core 0, outside any call).
ShootStepsNext ==
    \/ \E map \in {PagingMap} : Setup(map)
    \/ shoot[0].pc = "idle" /\ LapicSetup
    \/ \E at \in ShootdownPages, frame \in ShootdownFrames :
         Map(at, frame, {"PRESENT", "WRITABLE"})
    \/ \E c \in CPUs, at \in ShootdownPages : LeafWrite(c, "unmap", at, {})
    \/ \E c \in CPUs, at \in ShootdownPages :
         LeafWrite(c, "change_protection", at, {"PRESENT"})
    \/ \E c \in CPUs : ShootFlushAll(c)
    \/ \E c \in CPUs : ShootSendIpi(c)
    \/ \E c \in CPUs, at \in ShootdownPages : shoot[c].pc = "idle" /\ Access(c, at)
    \/ \E c \in CPUs : shoot[c].irq /\ TlbShootdownHandler(c)

-----------------------------------------------------------------------------
(***************************************************************************)
(* The allocator of virtual areas: src/src/mm/vmm.rs.  VirtualRange comes  *)
(* from the x86_64 crate and is modelled after the specification: a        *)
(* half-open range [start, end) of size end - start.                       *)
(***************************************************************************)

\* The pages of the vmalloc region (2^32 pages in the kernel).
VmallocPages == 4
\* The ranges callers hold at one time.
MaxGranted == 3

\* The kernel half of the model's address space: the vmalloc region takes
\* its last pages and the heap the two pages below, as the kernel's heap
\* lies right below its vmalloc region.
VMALLOC_END == PAGE_SIZE * Pow(COUNT, 4)
VMALLOC_START == VMALLOC_END - VmallocPages * PAGE_SIZE
HEAP_END == VMALLOC_START
HEAP_START == HEAP_END - 2 * PAGE_SIZE

\* The width of usize.  The kernel's is 64 bits; the model keeps the
\* wrapping of its arithmetic at a width its integers can hold.
UsizeBits == 30
UsizeMax == Pow(2, UsizeBits) - 1

\* The sizes asked of allocate, and its flags.
SizeChoices == {0, 1, PAGE_SIZE + 1, UsizeMax}
VmmFlagChoices == { {}, {"MAP"}, {"MAP", "ZEROED"} }

VirtualArea(start, end, flags) == [start |-> start, end |-> end, flags |-> flags]
RangeOf(vma) == [start |-> vma.start, end |-> vma.end]
RangeSize(vma) == vma.end - vma.start
RangeContains(vma, addr) == vma.start <= addr /\ addr < vma.end

\* size.wrapping_add(0xFFF) & !0xFFF.
AlignedSize(size) == (((size + 4095) % (UsizeMax + 1)) \div 4096) * 4096

\* insert_free_vma, and the same code at the end of find_free_first_fit.
insert_free_vma(free, vma) ==
    IF RangeSize(vma) \in DOMAIN free
    THEN [free EXCEPT ![RangeSize(vma)] = Append(@, vma)]
    ELSE (RangeSize(vma) :> <<vma>>) @@ free

\* find_free_first_fit: the first list, in the order of the sizes, that is
\* long enough and not empty gives its last area; what is left of the area
\* beyond size goes back to the free lists.
find_free_first_fit(free, size) ==
    LET fit == {k \in DOMAIN free : k >= size /\ free[k] # <<>>}
        k == CHOOSE x \in fit : \A y \in fit : x <= y
        vma == free[k][Len(free[k])]
        popped == [free EXCEPT ![k] = SubSeq(@, 1, Len(@) - 1)]
    IN IF fit = {} THEN [ok |-> FALSE, vma |-> VirtualArea(0, 0, {}), free |-> free]
       ELSE IF RangeSize(vma) > size
       THEN [ok |-> TRUE,
             vma |-> VirtualArea(vma.start, vma.start + size, vma.flags),
             free |-> insert_free_vma(popped,
                         VirtualArea(vma.start + size, vma.end, {}))]
       ELSE [ok |-> TRUE, vma |-> vma, free |-> popped]

\* insert_used_vma: BTreeMap::insert replaces what the key held.
insert_used_vma(used, vma) == (vma.start :> vma) @@ used

NoArea == VirtualArea(0 - 1, 0 - 1, {})
\* The record of a call (code holds the error code of a fault or the flags
\* given to allocate, freed the number of frames that a deallocate gave back
\* to the frame allocator and before the frame statistics at the time its
\* range was allocated); n alternates from one call to the next, so that a
\* call repeated in the same words still shows as a new one.
NoVmmCall == [op |-> "none", cpu |-> 0 - 1, at |-> 0 - 1, code |-> {}, res |-> "none",
              err |-> {}, area |-> NoArea, zeroed |-> FALSE, freed |-> 0,
              before |-> StatsNew, n |-> 0]
VmmCall(op, c, at) ==
    [NoVmmCall EXCEPT !.op = op, !.cpu = c, !.at = at, !.n = 1 - vret.n]

\* vmm::setup.
VmmSetup ==
    /\ vphase = "boot"
    /\ fphase = "ready"
    /\ FREE_VMA' = insert_free_vma(FREE_VMA,
                      VirtualArea(VMALLOC_START, VMALLOC_END, {}))
    /\ vphase' = "ready"
    /\ UNCHANGED <<USED_VMA, granted, vret>>
    /\ UNCHANGED frameVars
    /\ UNCHANGED pagingVars
    /\ UNCHANGED otherThanVmm

\* vmm::allocate(size, flags).  unimplemented! panics on ATOMIC, after the
\* area has left the free lists.
VmmAllocate(size, flags) ==
    /\ vphase = "ready"
    /\ Len(granted) < MaxGranted
    /\ LET r == find_free_first_fit(FREE_VMA, AlignedSize(size))
           vma == [r.vma EXCEPT !.flags = flags \cap {"MAP", "ZEROED"}]
       IN IF ~r.ok
          THEN /\ vret' = [VmmCall("allocate", 0 - 1, size) EXCEPT
                             !.code = flags, !.res = "OutOfMemory"]
               /\ UNCHANGED <<FREE_VMA, USED_VMA, vphase, granted>>
          ELSE IF "ATOMIC" \in flags
          THEN /\ FREE_VMA' = r.free
               /\ vphase' = "panic"
               /\ vret' = [VmmCall("allocate", 0 - 1, size) EXCEPT
                             !.code = flags, !.res = "panic"]
               /\ UNCHANGED <<USED_VMA, granted>>
          ELSE /\ FREE_VMA' = r.free
               /\ USED_VMA' = insert_used_vma(USED_VMA, vma)
               /\ granted' = Append(granted,
                                    [start |-> vma.start, end |-> vma.end,
                                     stats |-> statistic])
               /\ vret' = [VmmCall("allocate", 0 - 1, size) EXCEPT
                             !.code = flags, !.res = "Ok", !.area = vma]
               /\ UNCHANGED vphase
    /\ fphase' = IF vphase' = "panic" THEN "panic" ELSE fphase
    /\ UNCHANGED <<mmap, frames, statistic, fret, scen>>
    /\ UNCHANGED pagingVars
    /\ UNCHANGED otherThanVmm

\* The loop of deallocate over the pages of the area: unmap on the active
\* table, and Allocator::deallocate on the frame unmap returns.  A frame
\* outside the array or with a count of 0 panics.
RECURSIVE DeallocatePages(_, _, _)
DeallocatePages(acc, page, end) ==
    IF page >= end \/ ~acc.ok THEN acc
    ELSE IF ~Mapped(acc.tbl, page) THEN DeallocatePages(acc, page + PAGE_SIZE, end)
    ELSE LET f == index(Leaf(acc.tbl, page).addr)
             tbl1 == UnmapTables(acc.tbl, page)
         IN IF f \notin DOMAIN acc.frs \/ acc.frs[f].count = 0
            THEN [acc EXCEPT !.ok = FALSE, !.tbl = tbl1, !.shot = TRUE]
            ELSE DeallocatePages(
                   [ok |-> TRUE, tbl |-> tbl1, shot |-> TRUE, freed |-> acc.freed + 1,
                    frs |-> [acc.frs EXCEPT ![f] = DeallocateFrame(@)],
                    st |-> DeallocateStats(acc.st, acc.frs[f])],
                   page + PAGE_SIZE, end)

\* A deallocate that unmaps nothing.
VmmUnmapsNever(vma) == FALSE
\* The test of deallocate on the area: vma.flags.contains(Flags::MAP).
VmmUnmaps(vma) == "MAP" \in vma.flags

\* vmm::deallocate(range) on core c, with the i-th range that allocate
\* returned: the area is looked up by the start of the range alone, and
\* unwrap panics when the used map has nothing under it.
VmmDeallocate(c, i) ==
    /\ vphase = "ready"
    /\ fphase = "ready"
    /\ c = 0 \/ lapic_initialized
    /\ i \in DOMAIN granted
    /\ granted' = SubSeq(granted, 1, i - 1) \o SubSeq(granted, i + 1, Len(granted))
    /\ IF granted[i].start \notin DOMAIN USED_VMA
       THEN /\ vphase' = "panic"
            /\ fphase' = "panic"
            /\ vret' = [VmmCall("deallocate", c, granted[i].start) EXCEPT
                          !.res = "panic"]
            /\ UNCHANGED <<FREE_VMA, USED_VMA>>
            /\ UNCHANGED <<frames, statistic, tables, tlb, ipi>>
       ELSE LET vma == USED_VMA[granted[i].start]
                start == [ok |-> TRUE, tbl |-> tables, shot |-> FALSE, freed |-> 0,
                          frs |-> frames, st |-> statistic]
                r == IF VmmUnmaps(vma)
                     THEN DeallocatePages(start, vma.start, vma.end)
                     ELSE start
            IN /\ USED_VMA' = [k \in DOMAIN USED_VMA \ {vma.start} |-> USED_VMA[k]]
               /\ FREE_VMA' = IF r.ok THEN insert_free_vma(FREE_VMA, vma) ELSE FREE_VMA
               /\ vphase' = IF r.ok THEN "ready" ELSE "panic"
               /\ fphase' = IF r.ok THEN "ready" ELSE "panic"
               /\ tables' = r.tbl
               /\ frames' = r.frs
               /\ statistic' = r.st
               /\ tlb' = IF r.shot THEN ShootdownTlb(c) ELSE tlb
               /\ ipi' = IF r.shot THEN ShootdownIpi(c) ELSE ipi
               /\ vret' = [VmmCall("deallocate", c, granted[i].start) EXCEPT
                             !.area = vma, !.freed = r.freed,
                             !.before = granted[i].stats,
                             !.res = IF r.ok THEN "Ok" ELSE "panic"]
    /\ UNCHANGED <<mmap, fret, scen>>
    /\ UNCHANGED <<lapic_initialized, pret, pscen>>
    /\ UNCHANGED otherThanVmm

\* The addresses that fault: the first user page, the heap, and the pages
\* of the vmalloc region (one address is not page aligned).
FaultAddresses ==
    {0, HEAP_START, VMALLOC_START + 1, VMALLOC_START + PAGE_SIZE,
     VMALLOC_END - PAGE_SIZE}
\* PageFaultErrorCode, from the x86_64 crate: the bits the handler reads.
FaultCodes ==
    { {}, {"PROTECTION_VIOLATION", "WRITE_ACCESS"},
      {"PROTECTION_VIOLATION", "INSTRUCTION_FETCH"} }

page_align_down(addr) == (addr \div PAGE_SIZE) * PAGE_SIZE

\* What a demand-paging handler leaves behind.
Demand(res, err, tbl, frs, st, area, zeroed) ==
    [res |-> res, err |-> err, tbl |-> tbl, frs |-> frs, st |-> st,
     area |-> area, zeroed |-> zeroed]

\* The match on the result r of map in a demand-paging handler; already
\* is what the handler makes of AlreadyMapped.
DemandAfterMap(r, area, zeroed, already) ==
    IF r.res = MapOk THEN Demand("Ok", {}, r.tbl, r.frs, r.st, area, zeroed)
    ELSE IF r.res = OutOfMemory
    THEN Demand("Err", {"OUT_OF_MEMORY"}, r.tbl, r.frs, r.st, area, zeroed)
    ELSE Demand(already.res, already.err, r.tbl, r.frs, r.st, area, zeroed)

\* allocator::handle_demand_paging: the heap.
HeapDemandPaging(tbl, frs, st, addr) ==
    LET f == AllocateFind(frs)
    IN IF f < 0 THEN Demand("Err", {"OUT_OF_MEMORY"}, tbl, frs, st, NoArea, FALSE)
       ELSE DemandAfterMap(
              MapResultIn(BootPml4, tbl,
                          [frs EXCEPT ![f] = AllocateFrame(@, KernelZeroed)],
                          AllocateStats(st, KernelZeroed), addr, f * PAGE_SIZE,
                          {"PRESENT", "WRITABLE", "NO_EXECUTE"}),
              NoArea, TRUE, [res |-> "Err", err |-> {"ALREADY_MAPPED"}])

\* A vmalloc handler that maps whatever the flags of the area are.
VmmMappableAlways(vma) == TRUE
\* The test of vmm::handle_demand_paging on the area: Flags::MAP.
VmmMappable(vma) == "MAP" \in vma.flags

\* The starts of the used areas whose range contains the address.
ContainingAreas(used, a) == {k \in DOMAIN used : RangeContains(used[k], a)}

\* vmm::handle_demand_paging: the first area of the used map, in the order
\* of the starts, whose range contains the aligned address.
VmmDemandPaging(used, tbl, frs, st, addr) ==
    LET a == page_align_down(addr)
        hits == ContainingAreas(used, a)
        vma == used[CHOOSE k \in hits : \A j \in hits : k <= j]
        flags == IF "ZEROED" \in vma.flags THEN {"ZEROED"} ELSE {}
        f == AllocateFind(frs)
    IN IF hits = {} THEN Demand("Err", {"MISSING_PAGE"}, tbl, frs, st, NoArea, FALSE)
       ELSE IF ~VmmMappable(vma)
       THEN Demand("Err", {"NOT_MAPPABLE"}, tbl, frs, st, vma, FALSE)
       ELSE IF f < 0
       THEN Demand("Err", {"OUT_OF_MEMORY"}, tbl, frs, st, vma, FALSE)
       ELSE DemandAfterMap(
              MapResultIn(BootPml4, tbl,
                          [frs EXCEPT ![f] = AllocateFrame(@, flags)],
                          AllocateStats(st, flags), a, f * PAGE_SIZE,
                          {"PRESENT", "WRITABLE"}),
              vma, "ZEROED" \in flags, [res |-> "Panic", err |-> {}])

\* paging::handle_demand_paging: by the range of the address.
HandleDemandPaging(used, tbl, frs, st, addr) ==
    IF addr >= HEAP_START /\ addr < HEAP_END
    THEN HeapDemandPaging(tbl, frs, st, addr)
    ELSE IF addr >= VMALLOC_START /\ addr < VMALLOC_END
    THEN VmmDemandPaging(used, tbl, frs, st, addr)
    ELSE Demand("Err", {}, tbl, frs, st, NoArea, FALSE)

\* A handler that does not look at the no-execute bit of the page.
FaultReasonsNoExecute(tbl, code, addr) ==
    IF "PROTECTION_VIOLATION" \notin code THEN {"MISSING_PAGE"}
    ELSE IF ~fetch_pte(tbl, BootPml4, 4, addr).ok THEN {}
    ELSE IF "WRITABLE" \notin Leaf(tbl, addr).flags /\ "WRITE_ACCESS" \in code
    THEN {"WRITE_PROTECTED"}
    ELSE {"PROTECTION_VIOLATION"}

\* The end of handle_page_fault: the reasons of a fault that was not
\* handled, from the code and the leaf entry as the tables are by then.
FaultReasons(tbl, code, addr) ==
    LET pte == fetch_pte(tbl, BootPml4, 4, addr)
        leaf == tbl[pte.table][pte.idx]
    IN IF "PROTECTION_VIOLATION" \in code
       THEN IF ~pte.ok THEN {}
            ELSE IF "WRITABLE" \notin leaf.flags /\ "WRITE_ACCESS" \in code
            THEN {"WRITE_PROTECTED"}
            ELSE IF "NO_EXECUTE" \in leaf.flags /\ "INSTRUCTION_FETCH" \in code
            THEN {"NOT_EXECUTABLE"}
            ELSE {"PROTECTION_VIOLATION"}
       ELSE {"MISSING_PAGE"}

\* A handler that takes no fault for a lazy invalidation.
LazyNever(present, code) == FALSE
\* The test of handle_page_fault for a lazy TLB invalidation.
Lazy(present, code) == present /\ "PROTECTION_VIOLATION" \notin code

\* page_fault(code, addr) on core c, on the active table.
PageFault(c, code, addr) ==
    /\ fphase = "ready"
    /\ vphase # "panic"
    /\ c = 0 \/ lapic_initialized
    /\ \E present \in {Mapped(tables, addr)},
          d \in {HandleDemandPaging(USED_VMA, tables, frames, statistic, addr)},
          call \in {[VmmCall("page_fault", c, addr) EXCEPT !.code = code]} :
          IF Lazy(present, code)
          THEN /\ tlb' = ShootdownTlb(c)
               /\ ipi' = ShootdownIpi(c)
               /\ vret' = [call EXCEPT !.res = "LazyTlbInvalidation"]
               /\ UNCHANGED <<tables, frames, statistic, fphase, vphase>>
          ELSE IF ~present /\ "PROTECTION_VIOLATION" \notin code
          THEN /\ tables' = d.tbl
               /\ frames' = d.frs
               /\ statistic' = d.st
               /\ vret' = [call EXCEPT
                             !.res = IF d.res = "Ok" THEN "DemandPaging" ELSE d.res,
                             !.err = IF d.res = "Err"
                                     THEN d.err \cup FaultReasons(d.tbl, code, addr)
                                     ELSE {},
                             !.area = d.area, !.zeroed = d.zeroed]
               /\ vphase' = IF d.res = "Panic" THEN "panic" ELSE vphase
               /\ fphase' = IF d.res = "Panic" THEN "panic" ELSE fphase
               /\ UNCHANGED <<tlb, ipi>>
          ELSE /\ vret' = [call EXCEPT !.res = "Err",
                                       !.err = FaultReasons(tables, code, addr)]
               /\ UNCHANGED <<tables, frames, statistic, fphase, vphase, tlb, ipi>>
    /\ UNCHANGED <<FREE_VMA, USED_VMA, granted>>
    /\ UNCHANGED <<mmap, fret, scen>>
    /\ UNCHANGED <<lapic_initialized, pret, pscen>>
    /\ UNCHANGED otherThanVmm

VmmInit ==
    /\ FREE_VMA = <<>>
    /\ USED_VMA = <<>>
    /\ vphase = "boot"
    /\ granted = <<>>
    /\ vret = NoVmmCall

\* The callers of vmalloc.
VmmNext ==
    \/ \E map \in {PagingMap} : Setup(map)
    \/ VmmSetup
    \/ \E size \in SizeChoices, flags \in {{"MAP"}} : VmmAllocate(size, flags)
    \/ \E i \in 1..MaxGranted : VmmDeallocate(0, i)

\* The callers of vmalloc that ask for eager mapping, as Builder::build
\* does for a kernel stack, beside callers that do not.
AtomicFlagChoices == { {"MAP"}, {"ATOMIC", "MAP", "ZEROED"} }
AtomicNext ==
    \/ \E map \in {PagingMap} : Setup(map)
    \/ VmmSetup
    \/ \E size \in {1, PAGE_SIZE + 1}, flags \in AtomicFlagChoices :
         VmmAllocate(size, flags)
    \/ \E i \in 1..MaxGranted : VmmDeallocate(0, i)

\* A memory with room for the tables and the pages of a whole vmalloc
\* region: the frames of PagingMap and three more.
DemandMap ==
    <<Entry(0, 6, Usable), Entry(6, 1, BootloaderReclaimable), Entry(7, 3, Usable)>>

\* Areas of 12 KiB, filled by page faults and given back.
DemandNext ==
    \/ \E map \in {DemandMap} : Setup(map)
    \/ VmmSetup
    \/ \E size \in {3 * PAGE_SIZE}, flags \in { {}, {"MAP", "ZEROED"} } :
         VmmAllocate(size, flags)
    \/ \E i \in 1..MaxGranted : VmmDeallocate(0, i)
    \/ \E addr \in {VMALLOC_START + PAGE_SIZE * i : i \in 0..(VmallocPages - 1)} :
         PageFault(0, {}, addr)

\* The page faults of the kernel, with areas of two pages that stay
\* allocated.
FaultNext ==
    \/ \E map \in {PagingMap} : Setup(map)
    \/ LapicSetup
    \/ VmmSetup
    \/ \E size \in {PAGE_SIZE + 1}, flags \in VmmFlagChoices :
         VmmAllocate(size, flags)
    \/ \E code \in FaultCodes, addr \in FaultAddresses : PageFault(0, code, addr)
    \/ ChangeProtection(0, VMALLOC_END - PAGE_SIZE, {"PRESENT"})
    \/ Access(0, VMALLOC_END - PAGE_SIZE)

-----------------------------------------------------------------------------
(***************************************************************************)
(* The scheduler: src/src/sys/schedule, CURRENT_THREAD of sys/thread.rs    *)
(* and the clock-tick handler of arch/idt.rs                               *)
(***************************************************************************)

\* Scheduler::QUANTUM.
QUANTUM == 20
\* The number of threads of normal priority that are created.
MaxThreads == 3
\* The clock ticks counted in the round-robin run.
MaxTicks == 150

\* Thread 0 is the idle thread that carries Tid 0; the threads 1..MaxThreads
\* have Priority::Normal; MaxThreads + c is the idle thread that core c > 0
\* builds for itself.
NormalThreads == 1..MaxThreads
ThreadIds == 0..(MaxThreads + NCpu - 1)
priority(t) == IF t \in NormalThreads THEN "Normal" ELSE "Idle"

\* The first of the positions hits of the run list, in list order, or 0 for
\* None (iter().filter(..).find(..)).
First(hits) ==
    IF hits = {} THEN 0 ELSE CHOOSE k \in hits : \A j \in hits : k <= j

\* pick_next: the position of the first entry with quantum left whose thread
\* is not of idle priority and is Ready, or 0 for None.
pick_next(rl, th) ==
    First({k \in 1..Len(rl) : /\ rl[k].quantum > 0
                              /\ priority(rl[k].tid) # "Idle"
                              /\ th[rl[k].tid].state = "Ready"})

\* pick_idle: the position of the first entry whose thread is of idle
\* priority and Ready, or 0 (on which the unwrap panics).
pick_idle(rl, th) ==
    First({k \in 1..Len(rl) : /\ priority(rl[k].tid) = "Idle"
                              /\ th[rl[k].tid].state = "Ready"})

\* add_thread: the thread becomes Ready and is pushed with a full quantum.
add_thread_list(rl, t) == Append(rl, [tid |-> t, quantum |-> QUANTUM])
add_thread_state(th, t) == [th EXCEPT ![t].state = "Ready"]

\* redistribute: a full quantum for every entry that is not of idle priority.
redistribute(rl) ==
    [k \in 1..Len(rl) |->
        IF priority(rl[k].tid) # "Idle" THEN [rl[k] EXCEPT !.quantum = QUANTUM]
        ELSE rl[k]]

\* timer_tick for the current thread cur: the run list and the threads
\* afterwards; ok is FALSE when no entry carries cur (the unwrap panics).
timer_tick(rl, th, cur) ==
    LET k == First({j \in 1..Len(rl) : rl[j].tid = cur})
    IN IF k = 0 THEN [ok |-> FALSE, rl |-> rl, th |-> th]
       ELSE IF rl[k].quantum = 0
       THEN [ok |-> TRUE, rl |-> rl, th |-> [th EXCEPT ![cur].need = TRUE]]
       ELSE [ok |-> TRUE, rl |-> [rl EXCEPT ![k].quantum = @ - 1], th |-> th]

\* schedule on a core whose current thread is cur: the run list, the
\* threads and the current thread afterwards; next is the thread it chose
\* (-1 when it returned without choosing), redistributed tells whether the
\* retry ran, ok is FALSE when pick_idle panics.
schedule(rl, th, cur) ==
    LET k1 == pick_next(rl, th)
        rl1 == IF k1 = 0 THEN redistribute(rl) ELSE rl
        k2 == IF k1 = 0 THEN pick_next(rl1, th) ELSE k1
        ki == pick_idle(rl1, th)
        k == IF k2 # 0 THEN k2 ELSE ki
        next == rl1[k].tid
    IN IF k2 = 0 /\ priority(cur) = "Idle"
       THEN [ok |-> TRUE, rl |-> rl1, cur |-> cur, next |-> 0 - 1,
             redistributed |-> TRUE,
             th |-> [th EXCEPT ![cur].need = FALSE]]
       ELSE IF k = 0
       THEN [ok |-> FALSE, rl |-> rl1, cur |-> cur, next |-> 0 - 1,
             redistributed |-> TRUE, th |-> th]
       ELSE IF next = cur
       THEN [ok |-> TRUE, rl |-> rl1, cur |-> cur, next |-> next,
             redistributed |-> (k1 = 0),
             th |-> [th EXCEPT ![next].state = "Running"]]
       ELSE [ok |-> TRUE, rl |-> rl1, cur |-> next, next |-> next,
             redistributed |-> (k1 = 0),
             th |-> [th EXCEPT ![next].state = "Running", ![cur].need = FALSE]]

NoSchedule == [cpu |-> 0 - 1, ready |-> FALSE, exhausted |-> FALSE, next |-> 0 - 1]
NoTicks == [ticks |-> 0, first |-> 0 - 1, runs |-> [t \in NormalThreads |-> 0]]

\* What a call of schedule on core c found and chose (history).
ScheduleRecord(c, r) ==
    [cpu |-> c,
     ready |-> pick_next(run_list, threads) # 0,
     exhausted |-> /\ \E k \in 1..Len(run_list) : priority(run_list[k].tid) # "Idle"
                   /\ \A k \in 1..Len(run_list) :
                        priority(run_list[k].tid) # "Idle" => run_list[k].quantum = 0,
     next |-> IF r.ok THEN r.next ELSE 0 - 2]

\* The first use of CURRENT_THREAD on core c: the core builds an idle thread
\* and adds it to process 0, which adds it to the scheduler; it then looks
\* up the thread of Tid 0, adds that one to the scheduler and makes it its
\* current thread.  Core 0 comes first, so its idle thread carries Tid 0.
CurrentInit(c) ==
    /\ sphase = "run"
    /\ current[c] = 0 - 1
    /\ c = 0 \/ current[0] # 0 - 1
    /\ LET own == IF c = 0 THEN 0 ELSE MaxThreads + c
       IN /\ run_list' = add_thread_list(add_thread_list(run_list, own), 0)
          /\ threads' = add_thread_state(add_thread_state(threads, own), 0)
    /\ current' = [current EXCEPT ![c] = 0]
    /\ UNCHANGED <<sphase, sret, rr>>
    /\ UNCHANGED otherThanSched

\* Process::add_thread of a newly built thread: SCHEDULER.add_thread.  The
\* thread is built after the idle thread of core 0, which holds Tid 0.
AddThread(t) ==
    /\ sphase = "run"
    /\ current[0] # 0 - 1
    /\ threads[t].state = "Created"
    /\ run_list' = add_thread_list(run_list, t)
    /\ threads' = add_thread_state(threads, t)
    /\ UNCHANGED <<current, sphase, sret, rr>>
    /\ UNCHANGED otherThanSched

\* SCHEDULER.timer_tick on core c.
TimerTick(c) ==
    /\ sphase = "run"
    /\ current[c] # 0 - 1
    /\ LET r == timer_tick(run_list, threads, current[c])
       IN /\ run_list' = r.rl
          /\ threads' = r.th
          /\ sphase' = IF r.ok THEN "run" ELSE "panic"
    /\ UNCHANGED <<current, sret, rr>>
    /\ UNCHANGED otherThanSched

\* SCHEDULER.schedule on core c.
Schedule(c) ==
    /\ sphase = "run"
    /\ current[c] # 0 - 1
    /\ LET r == schedule(run_list, threads, current[c])
       IN /\ run_list' = r.rl
          /\ threads' = r.th
          /\ current' = [current EXCEPT ![c] = r.cur]
          /\ sphase' = IF r.ok THEN "run" ELSE "panic"
          /\ sret' = ScheduleRecord(c, r)
    /\ UNCHANGED rr
    /\ UNCHANGED otherThanSched

\* clock_tick_handler on core c: timer_tick, then schedule when the current
\* thread needs rescheduling.  The ticks, the tick of the first selection of
\* a normal thread and the selections of each normal thread are counted.
ClockTick(c) ==
    /\ sphase = "run"
    /\ current[c] # 0 - 1
    /\ LET cur == current[c]
           t == timer_tick(run_list, threads, cur)
           go == t.ok /\ t.th[cur].need
           r == schedule(t.rl, t.th, cur)
           n == Min(rr.ticks + 1, MaxTicks)
           sel == IF go /\ r.ok /\ r.cur # cur /\ r.cur \in NormalThreads
                  THEN {r.cur} ELSE {}
       IN /\ run_list' = IF go THEN r.rl ELSE t.rl
          /\ threads' = IF go THEN r.th ELSE t.th
          /\ current' = [current EXCEPT ![c] = IF go THEN r.cur ELSE cur]
          /\ sphase' = IF t.ok /\ (go => r.ok) THEN "run" ELSE "panic"
          /\ sret' = IF go THEN ScheduleRecord(c, r) ELSE sret
          /\ rr' = [ticks |-> n,
                    first |-> IF rr.first < 0 /\ sel # {} THEN n ELSE rr.first,
                    runs |-> [x \in NormalThreads |->
                                IF x \in sel THEN Min(rr.runs[x] + 1, MaxTicks)
                                ELSE rr.runs[x]]]
    /\ UNCHANGED otherThanSched

\* A clock tick of the round-robin run: all the threads have been added.
RoundRobinTick ==
    /\ \A t \in NormalThreads : threads[t].state # "Created"
    /\ ClockTick(0)

SchedInit ==
    /\ run_list = <<>>
    /\ threads = [t \in ThreadIds |-> [state |-> "Created", need |-> FALSE]]
    /\ current = [c \in CPUs |-> 0 - 1]
    /\ sphase = "run"
    /\ sret = NoSchedule
    /\ rr = NoTicks

\* add_thread, timer_tick and schedule in any order on core 0.  The threads
\* differ in nothing but their number, so they are added in increasing order.
SchedNext ==
    \/ CurrentInit(0)
    \/ \E t \in NormalThreads :
          /\ \A u \in 1..(t - 1) : threads[u].state # "Created"
          /\ AddThread(t)
    \/ TimerTick(0)
    \/ Schedule(0)

\* Every core initialises its CURRENT_THREAD, then takes clock ticks and
\* schedules, in any order, with one more thread.
SmpNext ==
    \/ \E c \in CPUs : CurrentInit(c)
    \/ AddThread(1)
    \/ \E c \in CPUs : TimerTick(c)
    \/ \E c \in CPUs : Schedule(c)

\* Three threads are added, then core 0 takes clock ticks.
RoundRobinNext ==
    \/ CurrentInit(0)
    \/ \E t \in NormalThreads : AddThread(t)
    \/ RoundRobinTick

-----------------------------------------------------------------------------
(***************************************************************************)
(* Processes: src/src/sys/process.rs.  PROCESSES is a spin::RwLock around  *)
(* a map from Pid to Arc<Process>; a Process is dropped, and its Pid       *)
(* released, when the last Arc that refers to it goes away.                *)
(***************************************************************************)

\* Pid::MAX, scaled down from 32768.
MaxPid == 5
Pids == 0..(MaxPid - 1)
\* The length of PIDS, Pid::MAX / size_of::<u64>(), rounded up as TidWords.
PidWords == (MaxPid + SizeOfU64 - 1) \div SizeOfU64
\* The process delete hands the orphans to: Pid(1).
InitPid == 1
\* The number of add_child calls the model makes.
MaxChildren == 2
\* The failed attempts of a lock the model tells apart.
MaxSpin == 2

\* No Process carries the Pid.
NoProcess == [live |-> FALSE, parent |-> 0 - 1, children |-> <<>>]
\* A core that is not inside delete.
NoDelete == [pc |-> "idle", pid |-> 0 - 1, spins |-> 0]

\* The loop of Pid::generate from the offset on: the first identifier whose
\* bit is clear, the bitmap with the bit set and the offset after the last
\* fetch_add.
RECURSIVE PidProbe(_, _)
PidProbe(bits, offset) ==
    LET pid == offset % MaxPid
        idx == pid \div SizeOfU64
        off == pid % SizeOfU64
    IN IF off \notin bits[idx]
       THEN [pid |-> pid, bits |-> [bits EXCEPT ![idx] = @ \cup {off}],
             offset |-> offset + 1]
       ELSE PidProbe(bits, offset + 1)

\* Pid::release: clears the bit of pid.  PIDS_USED is left alone.
PidRelease(bits, pid) ==
    [bits EXCEPT ![pid \div SizeOfU64] = @ \ {pid % SizeOfU64}]

\* The Processes whose children list holds an Arc of pid.
ListedBy(proc, pid) ==
    {q \in Pids : proc[q].live /\ \E i \in 1..Len(proc[q].children) :
                                      proc[q].children[i] = pid}

\* The length of all the children lists together.
RECURSIVE ChildrenAdded(_, _)
ChildrenAdded(proc, n) ==
    IF n = 0 THEN 0 ELSE Len(proc[n - 1].children) + ChildrenAdded(proc, n - 1)

\* Builder::new() [.parent(parent)] .build(): Pid::generate().unwrap(), then
\* the insertion under PROCESSES.write().  parent = -1 stands for a Builder
\* whose parent was not set.
ProcessBuild(c, parent) ==
    /\ pphase = "run"
    /\ del[c].pc = "idle"
    /\ plock = 0 - 1
    /\ IF PIDS_USED + 1 >= MaxPid
       THEN /\ pphase' = "panic"
            /\ UNCHANGED <<PROCESSES, process, PIDS, PIDS_OFFSET, PIDS_USED>>
       ELSE \E r \in {PidProbe(PIDS, PIDS_OFFSET)} :
            /\ PIDS_USED' = PIDS_USED + 1
            /\ PIDS' = r.bits
            /\ PIDS_OFFSET' = r.offset
            /\ process' = [process EXCEPT ![r.pid] =
                              [live |-> TRUE, parent |-> parent, children |-> <<>>]]
            /\ PROCESSES' = PROCESSES \cup {r.pid}
            /\ UNCHANGED pphase
    /\ UNCHANGED <<plock, del, prel>>
    /\ UNCHANGED otherThanProc

\* Process::add_child of the registered process p: find(child).unwrap()
\* under PROCESSES.read(), pushed onto p's children.
AddChild(c, p, child) ==
    /\ pphase = "run"
    /\ del[c].pc = "idle"
    /\ p \in PROCESSES
    /\ ChildrenAdded(process, MaxPid) < MaxChildren
    /\ plock = 0 - 1
    /\ IF child \in PROCESSES
       THEN /\ process' = [process EXCEPT ![p].children = Append(@, child)]
            /\ UNCHANGED pphase
       ELSE /\ pphase' = "panic"
            /\ UNCHANGED process
    /\ UNCHANGED <<PROCESSES, PIDS, PIDS_OFFSET, PIDS_USED, plock, del, prel>>
    /\ UNCHANGED otherThanProc

\* delete(pid), first half: PROCESSES.write() and processes.remove(&pid)
\* .unwrap().  The write guard lives until delete returns.
DeleteRemove(c, pid) ==
    /\ pphase = "run"
    /\ del[c].pc = "idle"
    /\ plock = 0 - 1
    /\ plock' = c
    /\ IF pid \in PROCESSES
       THEN /\ PROCESSES' = PROCESSES \ {pid}
            /\ del' = [del EXCEPT ![c] = [pc |-> "find", pid |-> pid, spins |-> 0]]
            /\ UNCHANGED pphase
       ELSE /\ pphase' = "panic"
            /\ UNCHANGED <<PROCESSES, del>>
    /\ UNCHANGED <<process, PIDS, PIDS_OFFSET, PIDS_USED, prel>>
    /\ UNCHANGED otherThanProc

\* The children of the removed process handed to init one after the other:
\* child.set_parent(Some(&init)); init.add_child(child.pid), whose
\* find(child.pid).unwrap() fails for a child that is not registered.
RECURSIVE Reparent(_, _, _)
Reparent(proc, registered, kids) ==
    IF kids = <<>>
    THEN [ok |-> TRUE, proc |-> proc]
    ELSE LET child == Head(kids)
             adopted == [proc EXCEPT ![child].parent = InitPid]
         IN IF child \in registered
            THEN Reparent([adopted EXCEPT ![InitPid].children = Append(@, child)],
                          registered, Tail(kids))
            ELSE [ok |-> FALSE, proc |-> adopted]

\* delete(pid), second half, from find(Pid(1)) on.  find takes
\* PROCESSES.read(), which spins for as long as a writer holds the lock.
\* Once it has the lock: find(Pid(1)).unwrap(), the children are drained
\* and handed to init, the guards go away, and the removed Process is
\* dropped - Process::drop releases its Pid - unless a children list
\* still refers to it.
DeleteFind(c) ==
    /\ pphase = "run"
    /\ del[c].pc = "find"
    /\ IF plock # 0 - 1
       THEN /\ del[c].spins < MaxSpin
            /\ del' = [del EXCEPT ![c].spins = @ + 1]
            /\ UNCHANGED <<PROCESSES, process, PIDS, plock, prel, pphase>>
       ELSE LET pid == del[c].pid
                drained == [process EXCEPT ![pid].children = <<>>]
                r == Reparent(drained, PROCESSES, process[pid].children)
            IN IF InitPid \notin PROCESSES \/ ~r.ok
               THEN /\ pphase' = "panic"
                    /\ process' = IF InitPid \in PROCESSES THEN r.proc ELSE process
                    /\ UNCHANGED <<PROCESSES, PIDS, plock, del, prel>>
               ELSE /\ del' = [del EXCEPT ![c] = NoDelete]
                    /\ plock' = 0 - 1
                    /\ IF ListedBy(r.proc, pid) = {}
                       THEN /\ process' = [r.proc EXCEPT ![pid] = NoProcess]
                            /\ PIDS' = PidRelease(PIDS, pid)
                            /\ prel' = [prel EXCEPT ![pid] = @ + 1]
                       ELSE /\ process' = r.proc
                            /\ UNCHANGED <<PIDS, prel>>
                    /\ UNCHANGED <<PROCESSES, pphase>>
    /\ UNCHANGED <<PIDS_OFFSET, PIDS_USED>>
    /\ UNCHANGED otherThanProc

ProcessInit ==
    /\ PROCESSES = {}
    /\ process = [p \in Pids |-> NoProcess]
    /\ PIDS = [w \in 0..(PidWords - 1) |-> {}]
    /\ PIDS_OFFSET = 0
    /\ PIDS_USED = 0
    /\ plock = 0 - 1
    /\ del = [c \in CPUs |-> NoDelete]
    /\ prel = [p \in Pids |-> 0]
    /\ pphase = "run"

ProcessNext ==
    \/ \E parent \in PROCESSES \cup {0 - 1} : ProcessBuild(0, parent)
    \/ \E p \in Pids, child \in Pids : AddChild(0, p, child)
    \/ \E c \in CPUs, pid \in Pids : DeleteRemove(c, pid)
    \/ \E c \in CPUs : DeleteFind(c)

-----------------------------------------------------------------------------
(***************************************************************************)
(* Start-up: start of src/src/main.rs with the EARLY flag, start_cpus and  *)
(* ap_start of src/src/arch/smp.rs, and the choice of the table in         *)
(* page_fault of src/src/arch/paging.rs.  The bootloader parks every       *)
(* application processor until its goto_address is written; the entry of   *)
(* the bootstrap processor ignores the write.                              *)
(***************************************************************************)

\* config::MAX_CPU, scaled down from 32.
MaxCpu == 3
MAX_CPU == MaxCpu
\* The entries a response can have: one more than MAX_CPU.
SmpEntries == 1..(MAX_CPU + 1)

\* The response that lists n CPUs with the local-APIC identifiers 0..n-1,
\* of which the bootstrap processor, listed first, has b.
SmpResponse(n, b) ==
    [i \in 1..n |->
        [processor_id |-> i - 1,
         lapic_id |-> IF i = 1 THEN b ELSE IF i - 1 <= b THEN i - 2 ELSE i - 1]]
SmpResponses ==
    {SmpResponse(n, b) : n \in 0..(MAX_CPU + 1), b \in 0..MAX_CPU}

\* A processor the bootloader keeps parked.
Parked == [pc |-> "parked", incs |-> 0]
NoBoot == [stores |-> 0, cpu |-> 0 - 1, table |-> "none", early |-> TRUE]

\* A page_fault that takes the per-CPU table whatever the flag says.
FaultTableLate(early) == "ACTIVE_TABLE"
\* page_fault: the table handle_page_fault is given, the one CR3 points to
\* (active_table()) or the per-CPU ACTIVE_TABLE.
FaultTable(early) == IF early THEN "active_table()" ELSE "ACTIVE_TABLE"

\* start up to the call of start_cpus, with the response of the bootloader.
Start(response) ==
    /\ bsp = "entry"
    /\ Len(response) > 0 => response[1].lapic_id < Len(response)
    /\ LIMINE_SMP' = response
    /\ bsp' = "start_cpus"
    /\ UNCHANGED <<CPU_COUNT, EARLY, ap, bret>>
    /\ UNCHANGED otherThanBoot

\* start_cpus up to its loop: the two asserts, then goto_address is written
\* for every entry whose lapic_id is not 0, which starts the application
\* processors among them.
StartCpus ==
    /\ bsp = "start_cpus"
    /\ IF LIMINE_SMP = <<>> \/ Len(LIMINE_SMP) > MAX_CPU
       THEN /\ bsp' = "panic"
            /\ UNCHANGED ap
       ELSE /\ bsp' = "wait"
            /\ ap' = [i \in SmpEntries |->
                        IF /\ i \in 2..Len(LIMINE_SMP)
                           /\ LIMINE_SMP[i].lapic_id # 0
                        THEN [ap[i] EXCEPT !.pc = "reload"] ELSE ap[i]]
    /\ UNCHANGED <<LIMINE_SMP, CPU_COUNT, EARLY, bret>>
    /\ UNCHANGED otherThanBoot

\* ap_start: gdt::reload and idt::reload.
ApReload(i) ==
    /\ ap[i].pc = "reload"
    /\ ap' = [ap EXCEPT ![i].pc = "tls"]
    /\ UNCHANGED <<LIMINE_SMP, CPU_COUNT, EARLY, bsp, bret>>
    /\ UNCHANGED otherThanBoot

\* ap_start: allocate_thread_local_storage.
ApTls(i) ==
    /\ ap[i].pc = "tls"
    /\ ap' = [ap EXCEPT ![i].pc = "lapic"]
    /\ UNCHANGED <<LIMINE_SMP, CPU_COUNT, EARLY, bsp, bret>>
    /\ UNCHANGED otherThanBoot

\* ap_start: lapic::enable.
ApLapic(i) ==
    /\ ap[i].pc = "lapic"
    /\ ap' = [ap EXCEPT ![i].pc = "tss"]
    /\ UNCHANGED <<LIMINE_SMP, CPU_COUNT, EARLY, bsp, bret>>
    /\ UNCHANGED otherThanBoot

\* ap_start: tss::install.
ApTss(i) ==
    /\ ap[i].pc = "tss"
    /\ ap' = [ap EXCEPT ![i].pc = "online"]
    /\ UNCHANGED <<LIMINE_SMP, CPU_COUNT, EARLY, bsp, bret>>
    /\ UNCHANGED otherThanBoot

\* ap_start: CPU_COUNT.fetch_add(1), then the processor freezes.
ApOnline(i) ==
    /\ ap[i].pc = "online"
    /\ CPU_COUNT' = CPU_COUNT + 1
    /\ ap' = [ap EXCEPT ![i] = [pc |-> "frozen", incs |-> @.incs + 1]]
    /\ UNCHANGED <<LIMINE_SMP, EARLY, bsp, bret>>
    /\ UNCHANGED otherThanBoot

\* One turn of the loop of start_cpus: it ends when CPU_COUNT is the
\* length of the response, and start_cpus returns.
WaitForCpus ==
    /\ bsp = "wait"
    /\ bsp' = IF CPU_COUNT = Len(LIMINE_SMP) THEN "started" ELSE "wait"
    /\ UNCHANGED <<LIMINE_SMP, CPU_COUNT, EARLY, ap, bret>>
    /\ UNCHANGED otherThanBoot

\* start after start_cpus: EARLY.store(false).
ClearEarly ==
    /\ bsp = "started"
    /\ EARLY' = FALSE
    /\ bsp' = "booted"
    /\ bret' = [bret EXCEPT !.stores = @ + 1]
    /\ UNCHANGED <<LIMINE_SMP, CPU_COUNT, ap>>
    /\ UNCHANGED otherThanBoot

\* The processors that run code: the bootstrap processor (entry 1) unless
\* it panicked, and the application processors inside ap_start.
Executing ==
    {i \in SmpEntries : IF i = 1 THEN bsp # "panic"
                        ELSE ap[i].pc \in {"reload", "tls", "lapic", "tss", "online"}}

\* page_fault on processor i: the flag decides which table is walked.
BootPageFault(i) ==
    /\ i \in Executing
    /\ bret' = [bret EXCEPT !.cpu = i, !.table = FaultTable(EARLY), !.early = EARLY]
    /\ UNCHANGED <<LIMINE_SMP, CPU_COUNT, EARLY, bsp, ap>>
    /\ UNCHANGED otherThanBoot

BootInit ==
    /\ LIMINE_SMP = <<>>
    /\ CPU_COUNT = 1
    /\ EARLY = TRUE
    /\ bsp = "entry"
    /\ ap = [i \in SmpEntries |-> Parked]
    /\ bret = NoBoot

ApNext(i) == ApReload(i) \/ ApTls(i) \/ ApLapic(i) \/ ApTss(i) \/ ApOnline(i)

BootNext ==
    \/ \E response \in SmpResponses : Start(response)
    \/ StartCpus
    \/ \E i \in SmpEntries : ApReload(i)
    \/ \E i \in SmpEntries : ApTls(i)
    \/ \E i \in SmpEntries : ApLapic(i)
    \/ \E i \in SmpEntries : ApTss(i)
    \/ \E i \in SmpEntries : ApOnline(i)
    \/ WaitForCpus
    \/ ClearEarly
    \/ \E i \in SmpEntries : BootPageFault(i)

-----------------------------------------------------------------------------
(***************************************************************************)
(* The IRQ-safe spinlock: RawSpinlockIrq of                                *)
(* src/crates/silicium-sync/src/spin.rs, with enabled, disable and restore *)
(* of src/crates/silicium-x86_64/src/interrupts.rs.  Every atomic          *)
(* operation and every change of the interrupt flag is a step.             *)
(***************************************************************************)

\* A core outside try_lock and unlock that has finished no call yet.
SpinIdle == [pc |-> "idle", before |-> FALSE, done |-> "none"]

\* interrupts::restore: the flag afterwards.
restore(state) == state

\* The code around the lock enables or disables the interrupts of its core.
IrqToggle(c) ==
    /\ scpu[c].pc = "idle"
    /\ sirq' = [sirq EXCEPT ![c] = ~@]
    /\ scpu' = [scpu EXCEPT ![c].done = "none"]
    /\ UNCHANGED slock
    /\ UNCHANGED otherThanSpin

\* try_lock: self.1.store(interrupts::enabled()).
TryLockSave(c) ==
    /\ scpu[c].pc = "idle"
    /\ slock' = [slock EXCEPT !.saved = sirq[c]]
    /\ scpu' = [scpu EXCEPT ![c] = [pc |-> "disable", before |-> sirq[c], done |-> "none"]]
    /\ UNCHANGED sirq
    /\ UNCHANGED otherThanSpin

\* try_lock: interrupts::disable().
TryLockDisable(c) ==
    /\ scpu[c].pc = "disable"
    /\ sirq' = [sirq EXCEPT ![c] = FALSE]
    /\ scpu' = [scpu EXCEPT ![c].pc = "cas"]
    /\ UNCHANGED slock
    /\ UNCHANGED otherThanSpin

\* try_lock: self.0.compare_exchange(false, true).
TryLockCas(c) ==
    /\ scpu[c].pc = "cas"
    /\ IF slock.locked
       THEN /\ scpu' = [scpu EXCEPT ![c].pc = "failed"]
            /\ UNCHANGED slock
       ELSE /\ scpu' = [scpu EXCEPT ![c].pc = "held"]
            /\ slock' = [slock EXCEPT !.locked = TRUE]
    /\ UNCHANGED sirq
    /\ UNCHANGED otherThanSpin

\* try_lock after a failed exchange: interrupts::restore(self.1.load()),
\* and false is returned.
TryLockRestore(c) ==
    /\ scpu[c].pc = "failed"
    /\ sirq' = [sirq EXCEPT ![c] = restore(slock.saved)]
    /\ scpu' = [scpu EXCEPT ![c].pc = "idle", ![c].done = "try_lock"]
    /\ UNCHANGED slock
    /\ UNCHANGED otherThanSpin

\* unlock: self.0.store(false).
UnlockStore(c) ==
    /\ scpu[c].pc = "held"
    /\ slock' = [slock EXCEPT !.locked = FALSE]
    /\ scpu' = [scpu EXCEPT ![c].pc = "unlock"]
    /\ UNCHANGED sirq
    /\ UNCHANGED otherThanSpin

\* unlock: interrupts::restore(self.1.load()).
UnlockRestore(c) ==
    /\ scpu[c].pc = "unlock"
    /\ sirq' = [sirq EXCEPT ![c] = restore(slock.saved)]
    /\ scpu' = [scpu EXCEPT ![c].pc = "idle", ![c].done = "unlock"]
    /\ UNCHANGED slock
    /\ UNCHANGED otherThanSpin

SpinInit ==
    /\ slock = [locked |-> FALSE, saved |-> FALSE]
    /\ sirq = [c \in CPUs |-> TRUE]
    /\ scpu = [c \in CPUs |-> SpinIdle]

SpinNext ==
    \/ \E c \in CPUs : IrqToggle(c)
    \/ \E c \in CPUs : TryLockSave(c)
    \/ \E c \in CPUs : TryLockDisable(c)
    \/ \E c \in CPUs : TryLockCas(c)
    \/ \E c \in CPUs : TryLockRestore(c)
    \/ \E c \in CPUs : UnlockStore(c)
    \/ \E c \in CPUs : UnlockRestore(c)

-----------------------------------------------------------------------------
(***************************************************************************)
(* The kernel's spinlocks and the interrupts.  Spinlock is spin::Mutex: it *)
(* does not touch the interrupt flag and is not reentrant.  A path of the  *)
(* kernel is the sequence of its lock operations, its irq::without blocks  *)
(* and its accesses to demand-paged memory, in the order of the code; a    *)
(* core runs the path on top of its stack: the code it was called with, a  *)
(* clock tick that interrupted it, a page fault that one of its accesses   *)
(* raised.                                                                 *)
(***************************************************************************)

Locks == {"ACTIVE_TABLE", "FRAME_ALLOCATOR", "FRAME_STATE", "FREE_VMA", "USED_VMA",
          "run_list", "state", "flags", "CURRENT_THREAD"}

\* CURRENT_THREAD is #[thread_local]: every core has its own.  The other
\* locks are shared: ACTIVE_TABLE is thread-local too, but on every core it
\* is a clone of the Arc of INIT_TABLE, that is the same lock; state and
\* flags are the locks of one thread, which every core can reach through
\* the run list.
PerCoreLocks == {"CURRENT_THREAD"}

\* The lock is free for the core: nobody holds it, or, for a lock that
\* every core has its own of, the core does not hold its own.
LockFree(l, c) == IF l \in PerCoreLocks THEN c \notin lowner[l] ELSE lowner[l] = {}

\* FRAME_ALLOCATOR.lock().allocate / deallocate: the allocator takes
\* FRAME_STATE inside irq::without while its caller holds FRAME_ALLOCATOR.
FrameAllocatorCall ==
    << <<"lock", "FRAME_ALLOCATOR">>, <<"without", "">>, <<"lock", "FRAME_STATE">>,
       <<"unlock", "FRAME_STATE">>, <<"end", "">>, <<"unlock", "FRAME_ALLOCATOR">> >>

\* thread::current(): CURRENT_THREAD.lock() for the time of the clone.
CurrentCall == << <<"lock", "CURRENT_THREAD">>, <<"unlock", "CURRENT_THREAD">> >>

\* The paths of the code that is not an interrupt handler.
\*   setup       paging::setup
\*   allocate    vmm::allocate with find_free_first_fit and insert_used_vma
\*   deallocate  vmm::deallocate of a mapped page with insert_free_vma
\*   add_thread  Scheduler::add_thread
\*   current     a caller of thread::current (process::run_idle)
\*   use         an access to a page of a vmalloc area that has the MAP flag
\* An insertion into a BTreeMap or a Vec allocates from the kernel heap,
\* whose pages are mapped on demand: it can raise a page fault.
Paths ==
    [ setup |->
        << <<"lock", "ACTIVE_TABLE">> >> \o FrameAllocatorCall
        \o << <<"unlock", "ACTIVE_TABLE">>, <<"ret", "">> >>,
      allocate |->
        << <<"lock", "FREE_VMA">>, <<"fault", "heap_fault">>, <<"unlock", "FREE_VMA">>,
           <<"without", "">>, <<"lock", "USED_VMA">>, <<"fault", "heap_fault">>,
           <<"unlock", "USED_VMA">>, <<"end", "">>, <<"ret", "">> >>,
      deallocate |->
        << <<"without", "">>, <<"lock", "USED_VMA">>, <<"unlock", "USED_VMA">>,
           <<"end", "">>, <<"lock", "ACTIVE_TABLE">>, <<"without", "">> >>
        \o FrameAllocatorCall
        \o << <<"end", "">>, <<"unlock", "ACTIVE_TABLE">>,
              <<"without", "">>, <<"lock", "FREE_VMA">>, <<"fault", "heap_fault">>,
              <<"unlock", "FREE_VMA">>, <<"end", "">>, <<"ret", "">> >>,
      add_thread |->
        << <<"lock", "state">>, <<"unlock", "state">>,
           <<"without", "">>, <<"lock", "run_list">>, <<"fault", "heap_fault">>,
           <<"unlock", "run_list">>, <<"end", "">>, <<"ret", "">> >>,
      current |-> CurrentCall \o << <<"ret", "">> >>,
      use |-> << <<"fault", "vmalloc_fault">>, <<"ret", "">> >> ]

\* The paths of the handlers.
\*   clock_tick     clock_tick_handler: timer_tick, need_rescheduling of
\*                  the current thread, then schedule with pick_next
\*   heap_fault     page_fault and allocator::handle_demand_paging
\*   vmalloc_fault  page_fault and vmm::handle_demand_paging
Handlers ==
    [ clock_tick |->
        << <<"without", "">> >> \o CurrentCall
        \o << <<"lock", "run_list">>, <<"lock", "flags">>, <<"unlock", "flags">>,
              <<"unlock", "run_list">>, <<"end", "">> >>
        \o CurrentCall
        \o << <<"lock", "flags">>, <<"unlock", "flags">>, <<"without", "">> >>
        \o CurrentCall
        \o << <<"without", "">>, <<"lock", "run_list">>, <<"lock", "state">>,
              <<"unlock", "state">>, <<"unlock", "run_list">>, <<"end", "">>,
              <<"end", "">>, <<"iret", "">> >>,
      heap_fault |->
        << <<"lock", "ACTIVE_TABLE">>, <<"without", "">> >>
        \o FrameAllocatorCall
        \o << <<"end", "">>, <<"unlock", "ACTIVE_TABLE">>, <<"iret", "">> >>,
      vmalloc_fault |->
        << <<"lock", "ACTIVE_TABLE">>, <<"without", "">>, <<"lock", "USED_VMA">>,
           <<"unlock", "USED_VMA">>, <<"end", "">>, <<"without", "">> >>
        \o FrameAllocatorCall
        \o << <<"end", "">>, <<"unlock", "ACTIVE_TABLE">>, <<"iret", "">> >> ]

PathNames == DOMAIN Paths
HandlerNames == DOMAIN Handlers

Program(name) == IF name \in PathNames THEN Paths[name] ELSE Handlers[name]

\* What a core executes: the top of its stack.
Running(c) == lcpu[c].stack # <<>>
Top(c) == lcpu[c].stack[Len(lcpu[c].stack)]
Instruction(c) == Program(Top(c).path)[Top(c).pc]

\* The core goes on to the next instruction of the path on top.
Advance(c, cpu) ==
    [cpu EXCEPT !.stack[Len(cpu.stack)].pc = @ + 1]

\* The core leaves the path on top.
Leave(cpu) == [cpu EXCEPT !.stack = SubSeq(@, 1, Len(@) - 1)]

\* The core saves its interrupt flag and clears it: the entry of
\* irq::without and the entry of a handler through its gate.
SaveAndDisable(cpu) == [cpu EXCEPT !.saved = Append(@, cpu.irq), !.irq = FALSE]

\* The core takes the flag it saved last: the end of irq::without and iret.
RestoreSaved(cpu) ==
    [cpu EXCEPT !.saved = SubSeq(@, 1, Len(@) - 1), !.irq = cpu.saved[Len(cpu.saved)]]

\* The end of the start-up of a core: irq::enable in the loop of start and
\* of ap_start.
LockStart(c) ==
    /\ ~lcpu[c].started
    /\ ~Running(c)
    /\ lcpu' = [lcpu EXCEPT ![c].started = TRUE, ![c].irq = TRUE]
    /\ UNCHANGED lowner
    /\ UNCHANGED otherThanLock

\* A core calls one of the paths.  paging::setup is called by the bootstrap
\* processor once, before its interrupts are enabled.
LockCall(c, name) ==
    /\ ~Running(c)
    /\ name = "setup" => c = 0 /\ ~lcpu[c].started /\ ~lcpu[c].setup
    /\ lcpu' = [lcpu EXCEPT ![c].stack = << [path |-> name, pc |-> 1] >>,
                            ![c].setup = @ \/ name = "setup"]
    /\ UNCHANGED lowner
    /\ UNCHANGED otherThanLock

\* The clock ticks on a core whose interrupts are enabled.
TickInterrupt(c) ==
    /\ lcpu[c].irq
    /\ lcpu' = [lcpu EXCEPT ![c] =
                   [SaveAndDisable(lcpu[c]) EXCEPT
                       !.stack = Append(@, [path |-> "clock_tick", pc |-> 1])]]
    /\ UNCHANGED lowner
    /\ UNCHANGED otherThanLock

\* irq::without: the flag is saved and cleared.
Without(c) ==
    /\ Running(c)
    /\ Instruction(c)[1] = "without"
    /\ lcpu' = [lcpu EXCEPT ![c] = Advance(c, SaveAndDisable(lcpu[c]))]
    /\ UNCHANGED lowner
    /\ UNCHANGED otherThanLock

\* The end of irq::without: the saved flag is restored.
EndWithout(c) ==
    /\ Running(c)
    /\ Instruction(c)[1] = "end"
    /\ lcpu' = [lcpu EXCEPT ![c] = Advance(c, RestoreSaved(lcpu[c]))]
    /\ UNCHANGED lowner
    /\ UNCHANGED otherThanLock

\* Mutex::lock: the core spins until the lock is free and takes it.
MutexLock(c) ==
    /\ Running(c)
    /\ Instruction(c)[1] = "lock"
    /\ LockFree(Instruction(c)[2], c)
    /\ lowner' = [lowner EXCEPT ![Instruction(c)[2]] = @ \cup {c}]
    /\ lcpu' = [lcpu EXCEPT ![c] = Advance(c, lcpu[c])]
    /\ UNCHANGED otherThanLock

\* The guard of the lock is dropped.
MutexUnlock(c) ==
    /\ Running(c)
    /\ Instruction(c)[1] = "unlock"
    /\ lowner' = [lowner EXCEPT ![Instruction(c)[2]] = @ \ {c}]
    /\ lcpu' = [lcpu EXCEPT ![c] = Advance(c, lcpu[c])]
    /\ UNCHANGED otherThanLock

\* An access to demand-paged memory finds its page mapped.
Touch(c) ==
    /\ Running(c)
    /\ Instruction(c)[1] = "fault"
    /\ lcpu' = [lcpu EXCEPT ![c] = Advance(c, lcpu[c])]
    /\ UNCHANGED lowner
    /\ UNCHANGED otherThanLock

\* An access to demand-paged memory raises a page fault, whatever the
\* interrupt flag; the access is done when the handler returns.
TouchFault(c) ==
    /\ Running(c)
    /\ Instruction(c)[1] = "fault"
    /\ lcpu' = [lcpu EXCEPT ![c] =
                   [SaveAndDisable(Advance(c, lcpu[c])) EXCEPT
                       !.stack = Append(@, [path |-> Instruction(c)[2], pc |-> 1])]]
    /\ UNCHANGED lowner
    /\ UNCHANGED otherThanLock

\* The handler returns to what it interrupted.
Iret(c) ==
    /\ Running(c)
    /\ Instruction(c)[1] = "iret"
    /\ lcpu' = [lcpu EXCEPT ![c] = Leave(RestoreSaved(lcpu[c]))]
    /\ UNCHANGED lowner
    /\ UNCHANGED otherThanLock

\* The path returns to its caller.
Return(c) ==
    /\ Running(c)
    /\ Instruction(c)[1] = "ret"
    /\ lcpu' = [lcpu EXCEPT ![c] = Leave(lcpu[c])]
    /\ UNCHANGED lowner
    /\ UNCHANGED otherThanLock

LockInit ==
    /\ lowner = [l \in Locks |-> {}]
    /\ lcpu = [c \in CPUs |->
                  [irq |-> FALSE, started |-> FALSE, setup |-> FALSE,
                   saved |-> <<>>, stack |-> <<>>]]

LockNext ==
    \/ \E c \in CPUs : LockStart(c)
    \/ \E c \in CPUs, name \in PathNames : LockCall(c, name)
    \/ \E c \in CPUs : TickInterrupt(c)
    \/ \E c \in CPUs : Without(c)
    \/ \E c \in CPUs : EndWithout(c)
    \/ \E c \in CPUs : MutexLock(c)
    \/ \E c \in CPUs : MutexUnlock(c)
    \/ \E c \in CPUs : Touch(c)
    \/ \E c \in CPUs : TouchFault(c)
    \/ \E c \in CPUs : Iret(c)
    \/ \E c \in CPUs : Return(c)

-----------------------------------------------------------------------------
(***************************************************************************)
(* Page faults on several cores, after start has cleared EARLY: page_fault *)
(* of src/src/arch/paging.rs step by step.  A core takes the lock of its   *)
(* ACTIVE_TABLE, walks the tables, resolves the fault and drops the lock.  *)
(* ACTIVE_TABLE is thread-local, but on every core it is a clone of the    *)
(* Arc of INIT_TABLE: the cores share one TableRoot and one lock.          *)
(***************************************************************************)

NoFault == [pc |-> "idle", at |-> 0 - 1, present |-> FALSE, free |-> {}, res |-> "none",
            err |-> {}]

\* A lock for every core: what ACTIVE_TABLE would be if every core wrapped
\* the root in a Spinlock of its own.
TableLockOfCore(c) == TRUE
\* The lock of the TableRoot behind ACTIVE_TABLE is free.
TableLockFree(c) == table_lock = 0 - 1

\* The pages that the cores touch: one of the heap, one of vmalloc.
RacePages == {HEAP_START, VMALLOC_START}

\* A core touches a page of the heap or of a used vmalloc area that the
\* tables do not hold; the processor raises a page fault with no bit of
\* the code set.
FaultRaise(c, addr) ==
    /\ fphase = "ready"
    /\ vphase = "ready"
    /\ addr >= VMALLOC_START => ContainingAreas(USED_VMA, addr) # {}
    /\ lapic_initialized
    /\ pf[c].pc = "idle"
    /\ pf[c].res = "none"
    /\ ~Mapped(tables, addr)
    /\ pf' = [pf EXCEPT ![c] = [NoFault EXCEPT
                 !.pc = "raised", !.at = addr,
                 !.free = {j \in DOMAIN frames : "FREE" \in frames[j].flags}]]
    /\ UNCHANGED table_lock
    /\ UNCHANGED otherThanRace

\* page_fault: ACTIVE_TABLE.lock().
FaultLock(c) ==
    /\ pf[c].pc = "raised"
    /\ TableLockFree(c)
    /\ table_lock' = c
    /\ pf' = [pf EXCEPT ![c].pc = "locked"]
    /\ UNCHANGED otherThanRace

\* handle_page_fault: fetch_pte and is_present.
FaultWalk(c) ==
    /\ pf[c].pc = "locked"
    /\ pf' = [pf EXCEPT ![c].pc = "walked", ![c].present = Mapped(tables, pf[c].at)]
    /\ UNCHANGED table_lock
    /\ UNCHANGED otherThanRace

\* handle_page_fault after the walk: a lazy TLB invalidation when the entry
\* was present, demand paging when it was not; page_fault_handler panics
\* on an error.
FaultResolve(c) ==
    /\ pf[c].pc = "walked"
    /\ fphase = "ready"
    /\ vphase = "ready"
    /\ \E d \in {HandleDemandPaging(USED_VMA, tables, frames, statistic, pf[c].at)} :
          IF Lazy(pf[c].present, {})
          THEN /\ tlb' = ShootdownTlb(c)
               /\ ipi' = ShootdownIpi(c)
               /\ pf' = [pf EXCEPT ![c].pc = "resolved", ![c].res = "LazyTlbInvalidation"]
               /\ UNCHANGED <<tables, frames, statistic, fphase, vphase>>
          ELSE /\ tables' = d.tbl
               /\ frames' = d.frs
               /\ statistic' = d.st
               /\ pf' = [pf EXCEPT
                           ![c].pc = "resolved",
                           ![c].res = IF d.res = "Ok" THEN "DemandPaging" ELSE "Panic",
                           ![c].err = IF d.res = "Err"
                                      THEN d.err \cup FaultReasons(d.tbl, {}, pf[c].at)
                                      ELSE {}]
               /\ vphase' = IF d.res = "Ok" THEN vphase ELSE "panic"
               /\ fphase' = IF d.res = "Ok" THEN fphase ELSE "panic"
               /\ UNCHANGED <<tlb, ipi>>
    /\ UNCHANGED table_lock
    /\ UNCHANGED <<FREE_VMA, USED_VMA, granted, vret>>
    /\ UNCHANGED <<mmap, fret, scen>>
    /\ UNCHANGED <<lapic_initialized, pret, pscen>>
    /\ UNCHANGED otherThanVmmAndRace

\* page_fault returns: the guard of the lock is dropped.
FaultUnlock(c) ==
    /\ pf[c].pc = "resolved"
    /\ pf[c].res # "Panic"
    /\ table_lock' = 0 - 1
    /\ pf' = [pf EXCEPT ![c].pc = "idle"]
    /\ UNCHANGED otherThanRace

RaceInit ==
    /\ pf = [c \in CPUs |-> NoFault]
    /\ table_lock = 0 - 1

\* Two cores that touch pages of the heap and of a vmalloc area.
RaceNext ==
    \/ \E map \in {DemandMap, PagingMap} : Setup(map)
    \/ LapicSetup
    \/ VmmSetup
    \/ \E size \in {PAGE_SIZE}, flags \in {{"MAP"}} : VmmAllocate(size, flags)
    \/ \E c \in CPUs, addr \in RacePages : FaultRaise(c, addr)
    \/ \E c \in CPUs : FaultLock(c)
    \/ \E c \in CPUs : FaultWalk(c)
    \/ \E c \in CPUs : FaultResolve(c)
    \/ \E c \in CPUs : FaultUnlock(c)

-----------------------------------------------------------------------------
(***************************************************************************)
(* Specifications                                                          *)
(***************************************************************************)

Init ==
    /\ FrameInit
    /\ TidInit
    /\ PagingInit
    /\ SchedInit
    /\ RootInit
    /\ ShootInit
    /\ VmmInit
    /\ ProcessInit
    /\ BootInit
    /\ SpinInit
    /\ LockInit
    /\ RaceInit

SpecFrame == Init /\ [][FrameNext]_vars
SpecHighMemory == Init /\ [][HighMemoryNext]_vars
SpecTid == Init /\ [][TidNext]_vars
SpecPaging == Init /\ [][PagingNext]_vars
SpecShootdown == Init /\ [][ShootdownNext]_vars
SpecRoots == Init /\ [][RootsNext]_vars
SpecShootSteps == Init /\ [][ShootStepsNext]_vars
SpecVmm == Init /\ [][VmmNext]_vars
SpecFault == Init /\ [][FaultNext]_vars
SpecAtomic == Init /\ [][AtomicNext]_vars
SpecDemand == Init /\ [][DemandNext]_vars
SpecSched == Init /\ [][SchedNext]_vars
SpecRoundRobin == Init /\ [][RoundRobinNext]_vars
\* A core that is inside delete keeps running: its attempts to take the
\* lock are not postponed for ever.
SpecSpin == Init /\ [][SpinNext]_vars
SpecLocks == Init /\ [][LockNext]_vars
SpecRace == Init /\ [][RaceNext]_vars
SpecSmp == Init /\ [][SmpNext]_vars
SpecProcess ==
    Init /\ [][ProcessNext]_vars /\ \A c \in CPUs : WF_vars(DeleteFind(c))
\* Every processor that was started keeps executing, and so does the
\* bootstrap processor.
SpecBoot ==
    /\ Init /\ [][BootNext]_vars
    /\ \A i \in SmpEntries : WF_vars(ApNext(i))
    /\ WF_vars(StartCpus) /\ WF_vars(WaitForCpus) /\ WF_vars(ClearEarly)

-----------------------------------------------------------------------------
(***************************************************************************)
(* Properties of the frame allocator                                       *)
(***************************************************************************)

Live(fi) == fi.flags \cap {"FREE", "RESERVED", "POISONED"} = {}
FreeCount == Cardinality({i \in DOMAIN frames : "FREE" \in frames[i].flags})

\* C1: every successful allocate returns a frame whose FrameInfo was FREE
\* (and so had count 0) immediately before the call; right after the call
\* the frame is not FREE and its count is 1.  allocate never hands out a
\* frame that is still referenced.
C1_AllocateReturnsFreeFrame ==
    (fret.op = "allocate" /\ fret.res >= 0) =>
        /\ "FREE" \in fret.pre.flags
        /\ fret.pre.count = 0
        /\ "FREE" \notin frames[fret.res].flags
        /\ frames[fret.res].count = 1

\* C1 witness: an allocate succeeded while another frame is referenced twice.
C1_Witness ==
    /\ fret.op = "allocate" /\ fret.res >= 0
    /\ \E g \in DOMAIN frames : g # fret.res /\ frames[g].count = 2

\* C2: a frame becomes FREE again, with KERNEL cleared, exactly at the
\* deallocate that brings its count to 0; a deallocate that leaves a count
\* above 0 only decrements; reference on a count of 0 and deallocate on a
\* count of 0 panic and leave the frame's flags and count as they were.  In
\* allocate; reference; deallocate; deallocate the frame is still allocated
\* after the first deallocate and FREE after the second.
C2_ReferenceCountSound ==
    /\ (fret.op = "deallocate" /\ fret.res \in DOMAIN frames) =>
         IF fret.pre.count = 0
         THEN fphase = "panic" /\ frames[fret.res] = fret.pre
         ELSE /\ fphase = "ready"
              /\ frames[fret.res].count = fret.pre.count - 1
              /\ ("FREE" \in frames[fret.res].flags) <=> (fret.pre.count = 1)
              /\ fret.pre.count = 1 => "KERNEL" \notin frames[fret.res].flags
              /\ fret.pre.count > 1 => frames[fret.res].flags = fret.pre.flags
    /\ (fret.op = "reference" /\ fret.res \in DOMAIN frames) =>
         IF fret.pre.count = 0
         THEN fphase = "panic" /\ frames[fret.res] = fret.pre
         ELSE fphase = "ready" /\ frames[fret.res] = retain(fret.pre)
    /\ scen.step = 3 =>
         "FREE" \notin frames[scen.frame].flags /\ frames[scen.frame].count = 1
    /\ scen.step = 4 =>
         /\ "FREE" \in frames[scen.frame].flags
         /\ "KERNEL" \notin frames[scen.frame].flags
         /\ frames[scen.frame].count = 0

\* C2 witness: allocate; reference; deallocate; deallocate has run on a frame
\* that was allocated as a kernel frame.
C2_Witness ==
    /\ scen.step = 4
    /\ fret.op = "deallocate" /\ fret.res = scen.frame
    /\ "KERNEL" \in fret.pre.flags

\* C8: after frame-state setup a FrameInfo has count > 0 if and only if it
\* is allocated, that is it carries none of FREE, RESERVED, POISONED.
C8_CountIffAllocated ==
    fphase \in {"ready", "panic"} =>
        \A i \in DOMAIN frames : (frames[i].count > 0) <=> Live(frames[i])

\* C9 as stated: allocated + reserved + kernel + borrowed + the number of
\* FREE frames + poisoned = total.
C9_AccountingClosureWithKernel ==
    fphase = "ready" =>
        statistic.allocated + statistic.reserved + statistic.kernel
          + statistic.borrowed + FreeCount + statistic.poisoned
        = statistic.total

\* C9 amended: kernel frames are counted in allocated as well, so the sum
\* closes without the kernel term: allocated + reserved + borrowed + the
\* number of FREE frames + poisoned = total.
C9_AccountingClosure ==
    fphase = "ready" =>
        statistic.allocated + statistic.reserved + statistic.borrowed
          + FreeCount + statistic.poisoned
        = statistic.total

\* C9 witness: a deallocate has just freed a frame while kernel frames and
\* other allocations are still accounted.
C9_Witness ==
    /\ fphase = "ready"
    /\ fret.op = "deallocate" /\ fret.pre.count = 1
    /\ statistic.kernel > 1 /\ statistic.allocated > statistic.kernel

\* The entries of the memory map that cover frame i.
Covering(i) ==
    {k \in 1..Len(mmap) :
       index(mmap[k].base) <= i /\ i < index(mmap[k].base + mmap[k].len)}

\* C10: right after setup on a map of non-overlapping entries, a frame of the
\* array (other than the frames holding the array itself, which setup marks
\* KERNEL last) is FREE with count 0 under a Usable entry; KERNEL, not FREE,
\* with count 1 under a KernelAndModules or BootloaderReclaimable entry;
\* POISONED under a BadMemory entry; RESERVED and not POISONED under an
\* entry of any other type; and POISONED when no entry covers it.
C10_InitFromMemoryMap ==
    (fphase = "ready" /\ fret.op = "none") =>
        \A i \in DOMAIN frames \ ArrayFrames(mmap) :
            /\ Covering(i) = {} => "POISONED" \in frames[i].flags
            /\ \A k \in Covering(i) :
                 CASE mmap[k].typ = Usable ->
                        "FREE" \in frames[i].flags /\ frames[i].count = 0
                   [] mmap[k].typ \in {KernelAndModules, BootloaderReclaimable} ->
                        /\ "KERNEL" \in frames[i].flags
                        /\ "FREE" \notin frames[i].flags
                        /\ frames[i].count = 1
                   [] mmap[k].typ = BadMemory -> "POISONED" \in frames[i].flags
                   [] OTHER ->
                        /\ "RESERVED" \in frames[i].flags
                        /\ "POISONED" \notin frames[i].flags

\* C11: right after setup every frame that holds a part of the FrameInfo
\* array is KERNEL, not FREE and has count 1; and at any later time no such
\* frame is FREE, so allocate never returns one.
C11_ArrayFramesKernelCounted ==
    fphase = "ready" =>
        /\ fret = NoCall =>
             \A i \in ArrayFrames(mmap) :
                /\ "KERNEL" \in frames[i].flags
                /\ "FREE" \notin frames[i].flags
                /\ frames[i].count = 1
        /\ \A i \in ArrayFrames(mmap) : "FREE" \notin frames[i].flags
        /\ fret.op = "allocate" => fret.res \notin ArrayFrames(mmap)

\* C12: a frame returned by allocate satisfies the placement flag it was
\* called with: below 1 MiB with BIOS, below 16 MiB with ISA, below 256 MiB
\* with X86 (so when no FREE frame satisfies the placement, None is returned).
C12_PlacementRespected ==
    (fret.op = "allocate" /\ fret.res >= 0) =>
        /\ "BIOS" \in fret.arg => fret.res * PAGE_SIZE < BIOS_LIMIT
        /\ "ISA" \in fret.arg => fret.res * PAGE_SIZE < ISA_LIMIT
        /\ "X86" \in fret.arg => fret.res * PAGE_SIZE < X86_LIMIT

-----------------------------------------------------------------------------
(***************************************************************************)
(* Properties of the identifier allocator                                  *)
(***************************************************************************)

RECURSIVE LiveUpTo(_)
LiveUpTo(n) == IF n = 0 THEN 0 ELSE holders[n - 1] + LiveUpTo(n - 1)
LiveTids == {t \in 0..(MAX - 1) : holders[t] > 0}

\* C5: whatever the interleaving of generate and release on the CPUs, no
\* identifier is carried by two live threads at once (generate never
\* returns an identifier that is live), and the number of live identifiers
\* never exceeds MAX.
C5_IdentifiersUnique ==
    /\ \A t \in 0..(MAX - 1) : holders[t] <= 1
    /\ LiveUpTo(MAX) <= MAX

\* The allocator has handed out its last identifier, one in the second word
\* of the bitmap is live, and an earlier one has been released.
C5_Witness ==
    /\ TIDS_USED >= MAX - 1
    /\ Cardinality(LiveTids) >= 2
    /\ \E t \in LiveTids : TidIndex(t) > 0
    /\ \E t \in 0..(MAX - 1) : t < TIDS_OFFSET /\ t \notin LiveTids
    /\ \A c \in CPUs : tpc[c] = "idle"

\* The identifiers that are taken: the bits set in the bitmap, and one for
\* every other core that is inside generate and has not set its bit yet.
TakenBits == {t \in 0..(MAX - 1) : TidOff(t) \in TIDS[TidIndex(t)]}
Generating(c) == {d \in CPUs \ {c} : tpc[d] \in {"fetch", "probe"}}

\* C24: generate returns None only on exhaustion: when a generate gives up,
\* the identifiers taken (live, or being taken by another core) are all but
\* at most one of the MAX identifiers; identifiers that were released count
\* as free again.
C24_NoneOnlyOnExhaustion ==
    \A c \in CPUs :
        tpc[c] = "full" =>
            Cardinality(TakenBits) + Cardinality(Generating(c)) >= MAX - 1

-----------------------------------------------------------------------------
(***************************************************************************)
(* Properties of the processes                                             *)
(***************************************************************************)

\* delete has taken the process out of the map, init is registered, the
\* children of the process are registered, and no children list keeps the
\* process alive: the delete has nothing to fail on, and the process is
\* dropped when it returns.
RemovedToDrop(p) ==
    /\ pphase = "run"
    /\ \E c \in CPUs : del[c].pc = "find" /\ del[c].pid = p
    /\ InitPid \in PROCESSES
    /\ \A i \in 1..Len(process[p].children) : process[p].children[i] \in PROCESSES
    /\ ListedBy(process, p) = {}

\* Every child of p has init as its parent and is among init's children.
Adopted(kids) ==
    \A i \in 1..Len(kids) :
        /\ process'[kids[i]].parent = InitPid
        /\ kids[i] \in {process'[InitPid].children[j] :
                            j \in 1..Len(process'[InitPid].children)}

\* C25: a process that delete removed is dropped: its Pid is released, once,
\* and by the step that releases it every child the process had has init
\* as its parent and is listed among init's children.
C25_ReapingOrder ==
    /\ [][\A p \in Pids : prel'[p] # prel[p] =>
              prel'[p] = 1 /\ Adopted(process[p].children)]_vars
    /\ \A p \in Pids : RemovedToDrop(p) ~> (prel[p] = 1)

\* C39: a delete that has removed an existing process from the table,
\* with init in the table, runs to completion.
C39_DeleteCompletes ==
    \A c \in CPUs :
        (del[c].pc = "find" /\ InitPid \in PROCESSES) ~> (del[c].pc = "idle")

-----------------------------------------------------------------------------
(***************************************************************************)
(* Properties of the page tables and of the TLB shootdown                  *)
(***************************************************************************)

\* What the round trip promises of the calls recorded so far, for the
\* frame the caller gave.
RoundTripResults ==
    /\ pscen.step >= 2 => pscen.t1 = pscen.frame
    /\ pscen.step >= 3 => pscen.u = pscen.frame
    /\ pscen.step >= 4 => pscen.t2 = 0 - 1

\* C3 as stated: for every page-aligned address v, frame p and flags, on a
\* root where v is unmapped, map(v, p, flags) succeeds, then translate(v)
\* is Some(p), then unmap(v) is Some(p), then translate(v) is None.
C3_RoundTripAnyFrame ==
    pscen.step >= 1 => (pscen.m = MapOk /\ RoundTripResults)

\* C3, amended: for every page-aligned address v, non-null frame p and
\* flags containing PRESENT, on a root where v is unmapped, map(v, p, flags)
\* returns Ok or OutOfMemory; when it returns Ok, translate(v) is Some(p),
\* then unmap(v) is Some(p), then translate(v) is None.
C3_RoundTrip ==
    (pscen.step >= 1 /\ pscen.frame # 0 /\ "PRESENT" \in pscen.flags)
        => /\ pscen.m \in {MapOk, OutOfMemory}
           /\ pscen.m = MapOk => RoundTripResults

\* A round trip on a given frame has run to its last translate while
\* another address was mapped.
C3_Witness ==
    /\ pscen.step = 4
    /\ pscen.frame # 0
    /\ "PRESENT" \in pscen.flags
    /\ pscen.m = MapOk
    /\ \E at \in VirtualChoices : at # pscen.at /\ Mapped(tables, at)

\* C13: map on an address whose leaf entry is PRESENT returns AlreadyMapped
\* and changes neither what translate and protection return for the address
\* nor the frame allocator (no frame is allocated), whether the frame given
\* is null or not.  (A step that leaves pret with a map call is that call.)
C13_MapAlreadyMapped ==
    [][(pret'.op = "map" /\ Mapped(tables, pret'.at)) =>
          /\ pret'.val = AlreadyMapped
          /\ translate(tables', pret'.at) = translate(tables, pret'.at)
          /\ protection(tables', pret'.at) = protection(tables, pret'.at)
          /\ frames' = frames
          /\ statistic' = statistic]_vars

\* map was called with the null frame on a mapped address while FREE frames
\* were left, and returned AlreadyMapped.
C13_Witness ==
    /\ pret.op = "map"
    /\ pret.frame = 0
    /\ pret.val = AlreadyMapped
    /\ Mapped(tables, pret.at)
    /\ AllocateFind(frames) >= 0

\* The TLB of core c holds an entry for at that the page tables no longer
\* grant: the page is unmapped, or mapped elsewhere, or with fewer flags.
StaleTlb(c, at) ==
    /\ tlb[c][at] # EmptyEntry
    /\ \/ ~Mapped(tables, at)
       \/ tlb[c][at].addr # Leaf(tables, at).addr
       \/ ~(tlb[c][at].flags \subseteq Leaf(tables, at).flags)

\* C4: once unmap, or a change_protection that tightens the protection,
\* has returned on the initiating core, no core, initiating or remote,
\* still holds a TLB entry for the affected page.
C4_ShootdownCoherence ==
    (pret.op \in {"unmap", "change_protection"} /\ pret.val >= 0)
        => \A c \in CPUs : ~StaleTlb(c, pret.at)

\* C17: a core that modifies a present leaf entry in unmap or
\* change_protection has its interrupts disabled from the write until the
\* call returns; its own TLB is flushed after the write and before the
\* shootdown interrupt is sent and before the call returns; the interrupt
\* is sent to the other cores after the local flush and only when the local
\* APIC is initialized, and otherwise nothing but the local flush happens.
C17_ShootdownOrdering ==
    /\ \A c \in CPUs :
          /\ shoot[c].pc # "idle" => ~shoot[c].irq
          /\ shoot[c].pc = "flush_all" => shoot[c].log = <<"write">>
          /\ shoot[c].pc = "send_ipi" =>
                /\ shoot[c].log = <<"write", "flush_all">>
                /\ tlb[c] = FlushedTlb
          /\ (shoot[c].pc = "idle" /\ shoot[c].log # <<>>) =>
                /\ shoot[c].irq
                /\ shoot[c].log \in
                     { <<"write", "flush_all", "return">>,
                       <<"write", "flush_all", "send_ipi", "return">> }
                /\ shoot[c].log[3] = "send_ipi" => lapic_initialized
    /\ (\E o \in CPUs : ipi[o]) => lapic_initialized
    /\ ~lapic_initialized =>
          \A c \in CPUs :
             shoot[c].log \in {<<>>, <<"write">>, <<"write", "flush_all">>,
                               <<"write", "flush_all", "return">>}

\* Core 1 has returned from a call that wrote a leaf entry, flushed its TLB
\* and sent the interrupt, which core 0 has not handled yet; and core 0 has
\* returned from a call made before the local APIC was set up.
C17_Witness ==
    /\ shoot[1].pc = "idle"
    /\ shoot[1].log = <<"write", "flush_all", "send_ipi", "return">>
    /\ ipi[0]
    /\ shoot[0].log = <<"write", "flush_all", "return">>

-----------------------------------------------------------------------------
(***************************************************************************)
(* Properties of the address spaces                                        *)
(***************************************************************************)

\* C14: when new or clone has created a root after the preallocation of the
\* kernel PML4 entries, every kernel-half PML4 entry of the new root equals
\* the same entry of every root created before it.
C14_KernelHalfShared ==
    [][(rret'.op \in {"new", "clone"} /\ roots' # roots) =>
          \A a \in {r.frame : r \in roots}, i \in KernelHalf :
             tables'[a][i] = tables'[rret'.root][i]]_vars

\* The roots A and B with B = A.clone().
Clones == {<<r.parent, r.frame>> : r \in {x \in roots : x.parent >= 0}}

\* C15: after B = A.clone(), a map or unmap of a user-half address through
\* one of A and B leaves what translate returns for the address through
\* the other as it was.
C15_UserHalvesIndependent ==
    [][(rret'.op \in {"map", "unmap"} /\ ~IsKernelAddress(rret'.at)) =>
          \A c \in Clones :
             /\ rret'.root = c[1] =>
                  translate_in(c[2], tables', rret'.at)
                     = translate_in(c[2], tables, rret'.at)
             /\ rret'.root = c[2] =>
                  translate_in(c[1], tables', rret'.at)
                     = translate_in(c[1], tables, rret'.at)]_vars

\* C16: after the preallocation, a map of a kernel-half address that
\* succeeds through one root is at once visible through the boot root and
\* through every root made by new or clone (translate returns the same
\* physical address through all of them), and no map changes a kernel-half
\* PML4 entry of any root.
C16_KernelMappingsShared ==
    [][(rret'.op = "map" /\ IsKernelAddress(rret'.at)) =>
          \A a \in {BootPml4} \cup RootFrames :
             /\ rret'.val = MapOk =>
                  /\ translate_in(rret'.root, tables', rret'.at) >= 0
                  /\ translate_in(a, tables', rret'.at)
                        = translate_in(rret'.root, tables', rret'.at)
             /\ \A i \in KernelHalf : tables'[a][i] = tables[a][i]]_vars

-----------------------------------------------------------------------------
(***************************************************************************)
(* Properties of the page-fault handler and of vmalloc                     *)
(***************************************************************************)

\* The step is a call of page_fault whose code says "not present".
NotPresentFault ==
    /\ vret'.n # vret.n
    /\ vret'.op = "page_fault"
    /\ "PROTECTION_VIOLATION" \notin vret'.code

\* C18: a page fault whose code says "not present" (PROTECTION_VIOLATION
\* clear) on an address whose leaf entry the walk finds PRESENT returns
\* LazyTlbInvalidation, leaves the TLB of the core flushed, allocates no
\* frame and changes no page-table entry.
C18_LazyTlbInvalidation ==
    [][(NotPresentFault /\ Mapped(tables, vret'.at)) =>
          /\ vret'.res = "LazyTlbInvalidation"
          /\ tlb'[vret'.cpu] = FlushedTlb
          /\ frames' = frames
          /\ statistic' = statistic
          /\ tables' = tables]_vars

\* A lazy invalidation has been handled on a page that stays mapped.
C18_Witness ==
    /\ vret.res = "LazyTlbInvalidation"
    /\ Mapped(tables, vret.at)
    /\ tlb[vret.cpu] = FlushedTlb

\* The step is a not-present fault on an unmapped page of the vmalloc
\* region.
VmallocFault ==
    /\ NotPresentFault
    /\ vret'.at >= VMALLOC_START /\ vret'.at < VMALLOC_END
    /\ ~Mapped(tables, vret'.at)

\* The first used area that contains the page of the fault.
FaultArea ==
    LET hits == ContainingAreas(USED_VMA, page_align_down(vret'.at))
    IN IF hits = {} THEN NoArea
       ELSE USED_VMA[CHOOSE k \in hits : \A j \in hits : k <= j]

\* The fault failed with the error and left frames and tables alone.
FailedUntouched(error) ==
    /\ vret'.res = "Err"
    /\ error \in vret'.err
    /\ frames' = frames
    /\ statistic' = statistic
    /\ tables' = tables

\* C19 as stated: a not-present fault in the vmalloc range fails with
\* MISSING_PAGE when no used area contains the address and with
\* NOT_MAPPABLE when the area lacks MAP, allocating and mapping nothing;
\* otherwise exactly one frame is allocated (zeroed iff the area has
\* ZEROED) and mapped PRESENT | WRITABLE at the page of the address.
C19_VmallocDemandPaging ==
    [][VmallocFault =>
          IF FaultArea = NoArea THEN FailedUntouched("MISSING_PAGE")
          ELSE IF "MAP" \notin FaultArea.flags THEN FailedUntouched("NOT_MAPPABLE")
          ELSE /\ statistic'.allocated = statistic.allocated + 1
               /\ vret'.zeroed = ("ZEROED" \in FaultArea.flags)
               /\ protection(tables', page_align_down(vret'.at)) =
                     {"PRESENT", "WRITABLE"}]_vars

\* C19 with the outcomes of a frame allocator that runs out: the two
\* failures are as stated; otherwise either the fault is handled, one frame
\* that was FREE is allocated for the page (zeroed iff the area has ZEROED)
\* and mapped PRESENT | WRITABLE at the page, and any other frame that
\* changed became a page table of the walk; or the fault fails with
\* OUT_OF_MEMORY and the page stays unmapped, with frames and tables
\* untouched when no frame was FREE.
C19_VmallocDemandPagingOrOutOfMemory ==
    [][VmallocFault =>
          IF FaultArea = NoArea THEN FailedUntouched("MISSING_PAGE")
          ELSE IF "MAP" \notin FaultArea.flags THEN FailedUntouched("NOT_MAPPABLE")
          ELSE LET a == page_align_down(vret'.at)
                   f == index(translate(tables', a))
               IN \/ /\ vret'.res = "DemandPaging"
                     /\ protection(tables', a) = {"PRESENT", "WRITABLE"}
                     /\ f \in DOMAIN frames
                     /\ "FREE" \in frames[f].flags
                     /\ frames'[f].count = 1
                     /\ frames'[f].flags \cap {"FREE", "KERNEL"} = {}
                     /\ vret'.zeroed = ("ZEROED" \in FaultArea.flags)
                     /\ \A g \in DOMAIN frames \ {f} :
                           frames'[g] # frames[g] =>
                              /\ "FREE" \in frames[g].flags
                              /\ "KERNEL" \in frames'[g].flags
                  \/ /\ vret'.res = "Err"
                     /\ "OUT_OF_MEMORY" \in vret'.err
                     /\ ~Mapped(tables', a)
                     /\ AllocateFind(frames) < 0 =>
                           (frames' = frames /\ tables' = tables)]_vars

\* A fault in an area with MAP and ZEROED has been handled by demand
\* paging.
C19_Witness ==
    /\ vret.res = "DemandPaging"
    /\ vret.at >= VMALLOC_START /\ vret.at < VMALLOC_END
    /\ "ZEROED" \in vret.area.flags
    /\ protection(tables, page_align_down(vret.at)) = {"PRESENT", "WRITABLE"}

\* C20: no two areas of the used map overlap, and every range that
\* allocate returned and that was not deallocated since is recorded in the
\* used map under its own start.
C20_UsedMapInvariant ==
    /\ \A j, k \in DOMAIN USED_VMA :
          j # k => \/ USED_VMA[j].end <= USED_VMA[k].start
                   \/ USED_VMA[k].end <= USED_VMA[j].start
    /\ \A i \in DOMAIN granted :
          /\ granted[i].start \in DOMAIN USED_VMA
          /\ RangeOf(USED_VMA[granted[i].start]) = RangeOf(granted[i])

\* The pages of the vmalloc region.
VmallocRegion ==
    {VMALLOC_START + PAGE_SIZE * i : i \in 0..(VmallocPages - 1)}

\* The number of free and of used areas that contain the page.
AreasOver(page) ==
    Cardinality({k \in DOMAIN USED_VMA : RangeContains(USED_VMA[k], page)})
    + Cardinality({ki \in UNION {{<<k, i>> : i \in DOMAIN FREE_VMA[k]} :
                                   k \in DOMAIN FREE_VMA} :
                      RangeContains(FREE_VMA[ki[1]][ki[2]], page)})

\* Every area lies in the region.
AreasInRegion ==
    /\ \A k \in DOMAIN USED_VMA :
          USED_VMA[k].start >= VMALLOC_START /\ USED_VMA[k].end <= VMALLOC_END
    /\ \A k \in DOMAIN FREE_VMA : \A i \in DOMAIN FREE_VMA[k] :
          FREE_VMA[k][i].start >= VMALLOC_START /\ FREE_VMA[k][i].end <= VMALLOC_END

\* C21: once vmm::setup has run, the free and the used areas are pairwise
\* disjoint and cover exactly the vmalloc region (every page of the region
\* lies in one area and in one only, and no area leaves the region); and an
\* allocate that returns OutOfMemory changes neither index.
C21_VmallocConservation ==
    /\ [](vphase = "ready" =>
             AreasInRegion /\ \A page \in VmallocRegion : AreasOver(page) = 1)
    /\ [][(vret'.n # vret.n /\ vret'.op = "allocate" /\ vret'.res = "OutOfMemory")
             => (FREE_VMA' = FREE_VMA /\ USED_VMA' = USED_VMA)]_vars

\* C22: an allocate with ATOMIC returns Ok with every page of the range
\* mapped, or OutOfMemory, or WouldBlock, and has no other outcome.
C22_AtomicAllocate ==
    (vret.op = "allocate" /\ "ATOMIC" \in vret.code) =>
       \/ /\ vret.res = "Ok"
          /\ \A page \in VmallocRegion :
                RangeContains(vret.area, page) => Mapped(tables, page)
       \/ vret.res \in {"OutOfMemory", "WouldBlock"}

\* The step is a deallocate that returned.
DeallocateStep ==
    /\ vret'.n # vret.n
    /\ vret'.op = "deallocate"
    /\ vret'.res = "Ok"

\* The pages of the area that were mapped before the step.
MappedPagesOf(vma) ==
    {page \in VmallocRegion : RangeContains(vma, page) /\ Mapped(tables, page)}

\* deallocate took the area out of the used map and put it into the free
\* index; when the area had MAP, no page of it stays mapped, and each frame
\* that was mapped in it was deallocated once and is FREE again, the
\* allocated count dropping by their number.
Deallocated(vma) ==
    /\ vma.start \notin DOMAIN USED_VMA'
    /\ RangeSize(vma) \in DOMAIN FREE_VMA'
    /\ \E i \in DOMAIN FREE_VMA'[RangeSize(vma)] : FREE_VMA'[RangeSize(vma)][i] = vma
    /\ "MAP" \in vma.flags =>
          /\ \A page \in VmallocRegion :
                RangeContains(vma, page) => ~Mapped(tables', page)
          /\ \A page \in MappedPagesOf(vma) :
                LET f == index(Leaf(tables, page).addr)
                IN /\ frames[f].count = 1
                   /\ frames'[f].count = 0
                   /\ "FREE" \in frames'[f].flags
          /\ vret'.freed = Cardinality(MappedPagesOf(vma))
          /\ statistic'.allocated = statistic.allocated - vret'.freed

\* C23 as stated: deallocate of a used area removes it from the used map
\* and returns it to the free index; with MAP no page of the range stays
\* mapped and every frame demand paging had mapped there is deallocated
\* once; and after three resolved faults in an area of 12 KiB it frees three
\* frames and brings the allocated count back to its value before the
\* allocation.
C23_DeallocateRestores ==
    [][DeallocateStep =>
          /\ Deallocated(vret'.area)
          /\ ("MAP" \in vret'.area.flags /\ Cardinality(MappedPagesOf(vret'.area)) = 3)
                => statistic'.allocated = vret'.before.allocated]_vars

\* C23 with the page tables counted: after three resolved faults in an
\* area of 12 KiB, deallocate frees three frames, and the allocated count
\* is back to its value before the allocation plus the number of page
\* tables that the faults created, which stay allocated.
C23_DeallocateFreesPages ==
    [][DeallocateStep =>
          /\ Deallocated(vret'.area)
          /\ ("MAP" \in vret'.area.flags /\ Cardinality(MappedPagesOf(vret'.area)) = 3)
                => /\ vret'.freed = 3
                   /\ statistic'.allocated - vret'.before.allocated =
                         statistic'.kernel - vret'.before.kernel]_vars

\* An area of 12 KiB with MAP | ZEROED has been deallocated after faults
\* that filled its three pages and created page tables on the way.
C23_Witness ==
    /\ vret.op = "deallocate"
    /\ vret.res = "Ok"
    /\ RangeSize(vret.area) = 3 * PAGE_SIZE
    /\ vret.area.flags = {"MAP", "ZEROED"}
    /\ vret.freed = 3
    /\ statistic.kernel > vret.before.kernel
    /\ \A page \in VmallocRegion : ~Mapped(tables, page)

-----------------------------------------------------------------------------
(***************************************************************************)
(* Properties of the scheduler                                             *)
(***************************************************************************)

\* C6: in any sequence of add_thread, timer_tick and schedule, a schedule
\* that finds a Ready thread of non-idle priority with quantum left does
\* not select an idle thread, and a schedule that finds the quanta of all
\* the non-idle threads exhausted selects, after its redistribute, a thread
\* of non-idle priority.
C6_SchedulerProgress ==
    sret.cpu >= 0 =>
        /\ sret.ready => sret.next \in NormalThreads
        /\ sret.exhausted => sret.next \in NormalThreads

\* C7: with three threads of equal priority added and schedule driven by
\* the clock tick of one core, 3 * QUANTUM ticks after the first of them was
\* selected each of the three has been selected exactly once, and the
\* rotation continues: two full rounds later each has been selected again.
C7_RoundRobinFair ==
    rr.first >= 0 =>
        /\ rr.ticks = rr.first + 3 * QUANTUM
              => \A t \in NormalThreads : rr.runs[t] = 1
        /\ rr.ticks >= rr.first + 2 * 3 * (QUANTUM + 1)
              => \A t \in NormalThreads : rr.runs[t] >= 2

\* The entry of the run list that timer_tick works on: the first one that
\* carries the current thread of core c.
RunningEntry(c) == First({j \in 1..Len(run_list) : run_list[j].tid = current[c]})

\* C26: a step that lowers a quantum lowers, by one, the quantum of the
\* entry of the thread running on the calling core and leaves every other
\* entry alone, and the step that brings the quantum to 0 - the QUANTUM-th
\* tick of a thread that started with a full quantum - sets NEED_SCHEDULING
\* on that thread; a step that sets NEED_SCHEDULING leaves the thread with
\* no quantum.
C26_TimerTickQuantum ==
    [][/\ \A k \in 1..Len(run_list) :
             (Len(run_list') = Len(run_list) /\ run_list'[k].quantum < run_list[k].quantum)
                => /\ k = RunningEntry(0)
                   /\ run_list'[k].quantum = run_list[k].quantum - 1
                   /\ \A j \in 1..Len(run_list) : j # k => run_list'[j] = run_list[j]
                   /\ run_list'[k].quantum = 0 => threads'[current[0]].need
       /\ \A t \in ThreadIds :
             (threads'[t].need /\ ~threads[t].need)
                => /\ t = current[0]
                   /\ run_list'[RunningEntry(0)].quantum = 0]_vars

\* C27: whenever schedule falls back to pick_idle, a Ready thread of idle
\* priority is in the run list: no call of schedule ends in the panic of
\* pick_idle's unwrap.
C27_IdleFallback ==
    sret.cpu >= 0 => sret.next # 0 - 2

\* The changes of state the state machine of a thread allows.
StateEdges ==
    {<<"Created", "Ready">>, <<"Ready", "Running">>}
        \cup {<<"Running", to>> :
                to \in {"Ready", "Blocked", "Waiting", "Sleeping", "Zombie"}}

\* C28: the state of a thread changes only along Created -> Ready ->
\* Running -> {Ready, Blocked, Waiting, Sleeping, Zombie}, and when schedule
\* switches a core to another thread, the thread it leaves, which is still
\* runnable, is Ready afterwards.
C28_ThreadStateMachine ==
    [][/\ \A t \in ThreadIds :
             threads'[t].state # threads[t].state
                => <<threads[t].state, threads'[t].state>> \in StateEdges
       /\ \A c \in CPUs :
             (current[c] >= 0 /\ current'[c] # current[c])
                => threads'[current[c]].state = "Ready"]_vars

-----------------------------------------------------------------------------
(***************************************************************************)
(* Properties of the start-up                                              *)
(***************************************************************************)

\* The application processors of the response.
ApEntries == 2..Len(LIMINE_SMP)

\* C29: for a response of 1 to MAX_CPU CPUs, start_cpus, once in its loop,
\* eventually returns; it has returned only when CPU_COUNT is the number
\* of CPUs of the response, and every application processor increments
\* CPU_COUNT once, after its TLS, local-APIC and TSS setup.
C29_StartCpusHandshake ==
    /\ [](bsp \in {"started", "booted"} =>
            /\ CPU_COUNT = Len(LIMINE_SMP)
            /\ \A i \in ApEntries : ap[i].incs = 1)
    /\ [](\A i \in SmpEntries :
            /\ ap[i].incs <= 1
            /\ ap[i].incs = 1 <=> ap[i].pc = "frozen")
    /\ (bsp = "wait") ~> (bsp \in {"started", "booted"})

\* C30: EARLY is true from the entry on, it is written once, from true to
\* false, by the bootstrap processor after start_cpus has seen every CPU
\* of the response online, and it never becomes true again; a page fault
\* walks the table CR3 points to while EARLY is true and the per-CPU
\* ACTIVE_TABLE once it is false.
C30_EarlyFlag ==
    /\ EARLY = TRUE
    /\ [](EARLY <=> bret.stores = 0)
    /\ [](bret.stores <= 1)
    /\ [][EARLY' # EARLY =>
            /\ EARLY /\ ~EARLY'
            /\ bsp = "started"
            /\ CPU_COUNT = Len(LIMINE_SMP)
            /\ \A i \in ApEntries : ap[i].pc = "frozen"]_vars
    /\ [][(bret'.cpu # bret.cpu \/ bret'.table # bret.table \/ bret'.early # bret.early) =>
            /\ bret'.early = EARLY
            /\ bret'.table = IF EARLY THEN "active_table()" ELSE "ACTIVE_TABLE"]_vars
    /\ [](bret.table = "ACTIVE_TABLE" => ~EARLY)

\* Three CPUs are online, the bootstrap processor has cleared EARLY and has
\* taken a page fault since.
C30_Witness ==
    /\ Len(LIMINE_SMP) = 3
    /\ CPU_COUNT = 3
    /\ bsp = "booted"
    /\ ~EARLY
    /\ bret.stores = 1
    /\ bret.cpu = 1
    /\ bret.table = "ACTIVE_TABLE"

-----------------------------------------------------------------------------
(***************************************************************************)
(* Properties of the locks                                                 *)
(***************************************************************************)

\* The cores that hold the lock: between the exchange that succeeded and
\* the store of unlock.
SpinHolders == {c \in CPUs : scpu[c].pc = "held"}

\* C31: whatever the interleaving of try_lock (lock is a loop of try_lock)
\* and unlock on several cores, at most one core holds the lock, the
\* interrupts of the holder are disabled, and a core that has finished an
\* unlock or a failed try_lock has the interrupt flag it had just before
\* the try_lock.
C31_SpinlockIrq ==
    /\ Cardinality(SpinHolders) <= 1
    /\ \A c \in SpinHolders : ~sirq[c]
    /\ \A c \in CPUs : scpu[c].done # "none" => sirq[c] = scpu[c].before

(***************************************************************************)
(* Properties of the kernel's locks                                        *)
(***************************************************************************)

\* The locks that the handlers take.
LocksOf(program) == {program[i][2] : i \in {j \in DOMAIN program : program[j][1] = "lock"}}
HandlerLocks == UNION {LocksOf(Handlers[h]) : h \in HandlerNames}

\* The locks that a core holds.
HeldBy(c) == {l \in Locks : c \in lowner[l]}

\* The lock that a core spins on, if it does.
Wanted(c) ==
    IF Running(c) /\ Instruction(c)[1] = "lock" /\ ~LockFree(Instruction(c)[2], c)
    THEN {Instruction(c)[2]}
    ELSE {}

\* C32: a core that is not in a handler holds a lock that a handler
\* takes only while its interrupts are disabled, and no handler spins on a
\* lock held by the code of its own core that it interrupted.
C32_HandlerLocksIrqSafe ==
    \A c \in CPUs :
        /\ Len(lcpu[c].stack) = 1 =>
               \A l \in HeldBy(c) \cap HandlerLocks : ~lcpu[c].irq
        /\ Len(lcpu[c].stack) > 1 => \A l \in Wanted(c) : c \notin lowner[l]

\* The locks whose order of acquisition is fixed: the frame allocator, the
\* page-table root, the vmalloc indices and the run list.
OrderedLocks == {"FRAME_ALLOCATOR", "ACTIVE_TABLE", "FREE_VMA", "USED_VMA", "run_list"}

\* The lock that a core is about to acquire, free or not.
Acquiring(c) ==
    IF Running(c) /\ Instruction(c)[1] = "lock" THEN {Instruction(c)[2]} ELSE {}

\* C33: a core that holds the frame-allocator lock acquires none of the
\* other ordered locks, and two cores never wait for each other: no core
\* spins on an ordered lock held by a core that spins on an ordered lock
\* held by the first.
C33_LockOrder ==
    /\ \A c \in CPUs :
           "FRAME_ALLOCATOR" \in HeldBy(c) => Acquiring(c) \cap OrderedLocks = {}
    /\ \A c1, c2 \in CPUs :
           c1 # c2 =>
               ~ \E a \in Wanted(c1) \cap OrderedLocks, b \in Wanted(c2) \cap OrderedLocks :
                     c2 \in lowner[a] /\ c1 \in lowner[b]

(***************************************************************************)
(* Properties of allocate_range                                            *)
(***************************************************************************)

\* The frame array has count contiguous FREE frames.
HasFreeRun(arr, count) ==
    \E i \in 0..(Cardinality(DOMAIN arr) - count) :
        \A j \in i..(i + count - 1) : "FREE" \in arr[j].flags

\* The frames that a step changes.
ChangedFrames == {j \in DOMAIN frames : frames'[j] # frames[j]}

\* C34: allocate_range(count, flags) on an array with count contiguous FREE
\* frames returns a range of exactly count frames, which were FREE and are
\* the only frames it changes: each is no longer FREE and has count 1;
\* on an array without such a run it returns None and changes no frame.
C34_AllocateRangeContiguous ==
    [][\A count \in 1..MaxRange, flags \in AllocationFlagChoices :
          AllocateRange(count, flags) =>
              IF HasFreeRun(frames, count)
              THEN /\ fphase' = "ready"
                   /\ fret'.res >= 0
                   /\ ChangedFrames = fret'.res..(fret'.res + count - 1)
                   /\ \A j \in ChangedFrames :
                          /\ "FREE" \in frames[j].flags
                          /\ "FREE" \notin frames'[j].flags
                          /\ frames'[j].count = 1
              ELSE /\ fret'.res < 0
                   /\ fphase' = "ready"
                   /\ frames' = frames]_vars

(***************************************************************************)
(* Properties of the page-fault handler                                    *)
(***************************************************************************)

\* The reason of a protection fault on a page with the given leaf entry.
ProtectionReason(leaf, code) ==
    IF "WRITE_ACCESS" \in code /\ "WRITABLE" \notin leaf.flags
    THEN {"WRITE_PROTECTED"}
    ELSE IF "INSTRUCTION_FETCH" \in code /\ "NO_EXECUTE" \in leaf.flags
    THEN {"NOT_EXECUTABLE"}
    ELSE {"PROTECTION_VIOLATION"}

TakenFrames == {j \in DOMAIN frames : "FREE" \in frames[j].flags /\ "FREE" \notin frames'[j].flags}

\* The frame is entered in a page table: as a table or as a mapped page.
Entered(tbl, j) ==
    \E t \in DOMAIN tbl : \E i \in DOMAIN tbl[t] :
        is_present(tbl[t][i]) /\ index(tbl[t][i].addr) = j

\* C36: a page fault that is not handled leaves no frame allocated for the
\* faulting page: every frame it took from the FREE frames is entered in
\* the page tables (a table that map allocated on its way), none is held
\* by nothing.
C36_NoFrameLeak ==
    [][( /\ vret' # vret
         /\ vret'.op = "page_fault"
         /\ vret'.res \in {"Err", "Panic"} ) =>
           \A j \in TakenFrames : Entered(tables', j)]_vars

\* Two cores whose faults on the same page have both been resolved, each
\* raised while the page was not mapped and with frames enough for the page
\* and its tables, no fault on another page having taken of these frames.
FaultedTogether(c1, c2) ==
    /\ c1 # c2
    /\ \A c \in CPUs : pf[c].res = "none" \/ pf[c].at = pf[c1].at
    /\ pf[c1].res # "none" /\ pf[c2].res # "none"
    /\ pf[c1].pc # "walked" /\ pf[c2].pc # "walked"
    /\ pf[c1].at = pf[c2].at
    /\ Cardinality(pf[c1].free) >= 4 /\ Cardinality(pf[c2].free) >= 4

OnlineCores == {c \in CPUs : current[c] # 0 - 1}

\* C38: no thread is the current thread of two cores, and no more threads
\* are Running than cores have initialised their current thread.
C38_CurrentOnOneCpu ==
    /\ \A c1, c2 \in OnlineCores : c1 # c2 => current[c1] # current[c2]
    /\ Cardinality({t \in ThreadIds : threads[t].state = "Running"})
           <= Cardinality(OnlineCores)

(***************************************************************************)
(* Properties of a thread creation that fails                              *)
(***************************************************************************)

\* The step is one of a creation that fails on core c: the release in
\* map_err after OutOfMemory, or the drop of the Builder's thread.
FailingCreationStep(c) ==
    \/ tpc[c] = "kstack" /\ tpc'[c] = "drop"
    \/ tpc[c] = "drop" /\ tpc'[c] = "idle"

\* C40: a step of a creation that fails clears the bit of no identifier
\* that a live thread holds, and the identifier that was generated for the
\* creation is released once: when the Builder's thread is dropped after
\* OutOfMemory with an identifier other than 0, its bit is still set.
C40_FailedCreationReleases ==
    /\ [][\A c \in CPUs : FailingCreationStep(c) =>
              \A t \in TakenBits : holders'[t] > 0 => TidOff(t) \in TIDS'[TidIndex(t)]]_vars
    /\ [](\A c \in CPUs : tpc[c] = "drop" /\ tloc[c] > 0 => tloc[c] \in TakenBits)

=============================================================================
